---- MODULE Spec2Model ----
(***************************************************************************)
(* Verification model of the equipment-testing scraper core:               *)
(*   - core/models.py: the equipment schema and create_equipment           *)
(*   - scrapers/pipelines.py: ValidationPipeline and                       *)
(*     UnityCatalogWriterPipeline                                          *)
(*   - scrapers/spiders/base_spider.py: create_equipment_item              *)
(*   - scrapers/spiders/quality_farm_supply.py:                            *)
(*     _map_api_response_to_tractor and extract_numeric                    *)
(* Python dictionaries are functions from key strings to tagged values.    *)
(***************************************************************************)
EXTENDS Integers, Sequences, FiniteSets, TLC

(***************************************************************************)
(* Bounds of the model.                                                    *)
(***************************************************************************)
\* Number of items the spider yields during one crawl.
MaxItems == 3
\* self.buffer_size of the writer (pipelines.py:111 sets 100); the model runs
\* the writer with a small batch size so that full batches occur.
buffer_size == 2

\* The longest generated text of a spec value, in characters
MaxLen == 3

\* The longest makes list of an API response
MaxMakes == 2

\* The number of calls made on a table manager
MaxCalls == 8

\* The most items of a spec payload
MaxRows == 2

(***************************************************************************)
(* Python values. Every value carries its type tag, so that values of      *)
(* different Python types can be compared.                                 *)
(***************************************************************************)
PyNone == [kind |-> "none", s |-> "", n |-> 0]
PyStr(x) == [kind |-> "str", s |-> x, n |-> 0]
PyInt(i) == [kind |-> "int", s |-> "", n |-> i]
\* datetime.now(UTC) at construction time (models.py:92-93)
Now == [kind |-> "datetime", s |-> "now", n |-> 0]

\* dict.get(key): None when the key is absent
Get(d, k) == IF k \in DOMAIN d THEN d[k] ELSE PyNone

\* The empty dict
EmptyDict == [k \in {} |-> PyNone]

\* A dict key that is not a str (e.g. the int 1): Variant(**data) raises
\* TypeError for it before any field is validated.
NonStrKey == "<int 1>"

(***************************************************************************)
(* Python str, as a sequence of one-character strings, and the str methods *)
(* the code uses.                                                          *)
(***************************************************************************)
Whitespace == {" "}

Digits == <<"0", "1", "2", "3", "4", "5", "6", "7", "8", "9">>

LowerLetters ==
    <<"a", "b", "c", "d", "e", "f", "g", "h", "i", "j", "k", "l", "m", "n", "o",
      "p", "q", "r", "s", "t", "u", "v", "w", "x", "y", "z">>

UpperLetters ==
    <<"A", "B", "C", "D", "E", "F", "G", "H", "I", "J", "K", "L", "M", "N", "O",
      "P", "Q", "R", "S", "T", "U", "V", "W", "X", "Y", "Z">>

\* The position of a character in a sequence of characters (0: not in it)
IndexOf(c, alphabet) ==
    IF \E i \in DOMAIN alphabet : alphabet[i] = c
    THEN CHOOSE i \in DOMAIN alphabet : alphabet[i] = c
    ELSE 0

UpperChar(c) ==
    IF IndexOf(c, LowerLetters) # 0 THEN UpperLetters[IndexOf(c, LowerLetters)] ELSE c

LowerChar(c) ==
    IF IndexOf(c, UpperLetters) # 0 THEN LowerLetters[IndexOf(c, UpperLetters)] ELSE c

\* str.upper() and str.lower()
Upper(s) == [i \in DOMAIN s |-> UpperChar(s[i])]

Lower(s) == [i \in DOMAIN s |-> LowerChar(s[i])]

RECURSIVE LStrip(_)
LStrip(s) == IF s # <<>> /\ Head(s) \in Whitespace THEN LStrip(Tail(s)) ELSE s

RECURSIVE RStrip(_)
RStrip(s) ==
    IF s # <<>> /\ s[Len(s)] \in Whitespace THEN RStrip(SubSeq(s, 1, Len(s) - 1))
    ELSE s

\* str.strip()
Strip(s) == RStrip(LStrip(s))

\* str.startswith(prefix)
StartsWith(s, prefix) ==
    Len(s) >= Len(prefix) /\ SubSeq(s, 1, Len(prefix)) = prefix

\* The first position at which sub occurs in s (0: nowhere); sub is not empty
Find(s, sub) ==
    LET hits == {i \in 1..(Len(s) - Len(sub) + 1) : SubSeq(s, i, i + Len(sub) - 1) = sub}
    IN IF hits = {} THEN 0 ELSE CHOOSE i \in hits : \A j \in hits : i <= j

\* sub in s
Contains(s, sub) == Find(s, sub) # 0

\* str.replace(old, ""): the occurrences of old, left to right, removed
RECURSIVE Remove(_, _)
Remove(s, old) ==
    IF s = <<>> THEN <<>>
    ELSE IF StartsWith(s, old) THEN Remove(SubSeq(s, Len(old) + 1, Len(s)), old)
    ELSE <<Head(s)>> \o Remove(Tail(s), old)

\* str.split(sep) for a one-character separator: the list of segments
RECURSIVE Split(_, _)
Split(s, sep) ==
    LET i == Find(s, <<sep>>)
    IN IF i = 0 THEN <<s>>
       ELSE <<SubSeq(s, 1, i - 1)>> \o Split(SubSeq(s, i + 1, Len(s)), sep)

\* str.isdigit()
isdigit(s) == s # <<>> /\ \A i \in DOMAIN s : IndexOf(s[i], Digits) # 0

\* The number a non-empty string of digits denotes
RECURSIVE DigitsValue(_)
DigitsValue(s) ==
    IF s = <<>> THEN 0
    ELSE 10 * DigitsValue(SubSeq(s, 1, Len(s) - 1)) + (IndexOf(s[Len(s)], Digits) - 1)

\* A string without its sign, and the sign (1 or -1)
Unsigned(s) == IF s # <<>> /\ Head(s) \in {"-", "+"} THEN Tail(s) ELSE s

SignOf(s) == IF s # <<>> /\ Head(s) = "-" THEN -1 ELSE 1

\* int(s): surrounding whitespace and a sign are accepted, then digits only;
\* anything else raises ValueError
int(s) ==
    LET body == Unsigned(Strip(s))
    IN IF isdigit(body)
       THEN [ok |-> TRUE, value |-> SignOf(Strip(s)) * DigitsValue(body)]
       ELSE [ok |-> FALSE, value |-> 0]

\* A float as mantissa / 10^places, with no trailing zero among the places
RECURSIVE Normal(_, _)
Normal(mantissa, places) ==
    IF places > 0 /\ mantissa % 10 = 0 THEN Normal(mantissa \div 10, places - 1)
    ELSE [mantissa |-> mantissa, places |-> places]

\* float(s): surrounding whitespace and a sign are accepted, then digits with
\* at most one decimal point and at least one digit; anything else raises
\* ValueError
float(s) ==
    LET body == Unsigned(Strip(s))
        point == Find(body, <<".">>)
        whole == IF point = 0 THEN body ELSE SubSeq(body, 1, point - 1)
        frac == IF point = 0 THEN <<>> ELSE SubSeq(body, point + 1, Len(body))
        wellformed ==
            /\ whole \o frac # <<>>
            /\ isdigit(whole \o frac)
    IN IF wellformed
       THEN [ok |-> TRUE,
             value |-> Normal(SignOf(Strip(s)) * DigitsValue(whole \o frac), Len(frac))]
       ELSE [ok |-> FALSE, value |-> Normal(0, 0)]

(***************************************************************************)
(* core/models.py: enumerations and field sets                             *)
(***************************************************************************)
EquipmentCategory ==
    {"tractor", "combine", "implement", "harvester", "planter", "sprayer", "other"}

TransmissionType == {"manual", "powershift", "cvt", "hydrostatic", "ivt", "other"}

SeparatorType == {"conventional", "rotary", "hybrid"}

SprayerBoomType == {"rigid", "folding", "truss", "hybrid", "other"}

CommonFields ==
    {"make", "model", "category", "brand", "series", "submodel", "year_start",
     "year_end", "description", "image_url", "created_at", "updated_at",
     "source_url"}

TractorFields ==
    CommonFields \cup
    {"pto_hp", "engine_hp", "rated_rpm", "transmission_type", "forward_gears",
     "reverse_gears", "hydraulic_flow", "hydraulic_pressure",
     "rear_remote_valves", "weight_lbs", "wheelbase_inches",
     "hitch_lift_capacity"}

CombineFields ==
    CommonFields \cup
    {"engine_hp", "separator_type", "separator_width_inches",
     "rotor_width_inches", "grain_tank_capacity_bu", "unloading_rate_bu_min",
     "unloading_auger_length_ft", "weight_lbs"}

SprayerFields ==
    CommonFields \cup
    {"engine_hp", "rated_rpm", "tank_capacity_gal", "tank_material",
     "boom_width_ft", "boom_height_ft", "boom_type", "nozzle_spacing_inches",
     "number_of_nozzles", "application_rate_gal_per_acre", "swath_width_ft",
     "ground_speed_mph_min", "ground_speed_mph_max", "pump_type",
     "pump_capacity_gal_min", "tire_type", "number_of_wheels",
     "row_crop_capable", "weight_lbs", "wheelbase_inches",
     "transport_width_ft"}

ImplementFields ==
    CommonFields \cup
    {"working_width_ft", "working_width_inches", "transport_width_ft",
     "weight_lbs", "required_hp_min", "required_hp_max", "number_of_rows",
     "row_spacing_inches"}

\* The schema variants of the Equipment union (models.py:325)
Variants == {"Tractor", "Combine", "Sprayer", "Implement", "CommonEquipment"}

Fields(variant) ==
    CASE variant = "Tractor" -> TractorFields
      [] variant = "Combine" -> CombineFields
      [] variant = "Sprayer" -> SprayerFields
      [] variant = "Implement" -> ImplementFields
      [] OTHER -> CommonFields

\* The Literal[...] category of a specialised variant
LiteralCategory(variant) ==
    CASE variant = "Tractor" -> "tractor"
      [] variant = "Combine" -> "combine"
      [] variant = "Sprayer" -> "sprayer"
      [] variant = "Implement" -> "implement"
      [] OTHER -> ""

RequiredFields(variant) ==
    IF variant = "CommonEquipment" THEN {"make", "model", "category"}
    ELSE {"make", "model"}

OptionalStrFields ==
    {"brand", "series", "submodel", "description", "image_url", "source_url",
     "tank_material", "pump_type", "tire_type"}

YearFields == {"year_start", "year_end"}

\* year bounds of Field(ge=1900, le=2100)
YearMin == 1900
YearMax == 2100
\* Field(le=10000) of rated_rpm and Field(le=200) of boom_width_ft
RpmMax == 10000
BoomWidthMax == 200

EnumFields == {"transmission_type", "separator_type", "boom_type"}

EnumValues(f) ==
    CASE f = "transmission_type" -> TransmissionType
      [] f = "separator_type" -> SeparatorType
      [] OTHER -> SprayerBoomType

\* Upper limit of a number field (-1: none)
NumberMax(f) ==
    CASE f = "rated_rpm" -> RpmMax
      [] f = "boom_width_ft" -> BoomWidthMax
      [] OTHER -> -1

(***************************************************************************)
(* Field validation of one supplied value (pydantic field constraints).    *)
(***************************************************************************)
FieldTypeOK(variant, f, v) ==
    CASE f \in {"make", "model"} -> v.kind = "str"
      [] f = "category" ->
            IF variant = "CommonEquipment"
            THEN v.kind = "str" /\ v.s \in EquipmentCategory
            ELSE v.kind = "str" /\ v.s = LiteralCategory(variant)
      [] f \in OptionalStrFields -> v.kind \in {"none", "str"}
      [] f \in YearFields ->
            v.kind = "none" \/ (v.kind = "int" /\ v.n >= YearMin /\ v.n <= YearMax)
      [] f \in EnumFields ->
            v.kind = "none" \/ (v.kind = "str" /\ v.s \in EnumValues(f))
      [] f \in {"created_at", "updated_at"} -> v.kind = "datetime"
      [] f = "row_crop_capable" -> v.kind \in {"none", "bool"}
      [] OTHER ->
            v.kind = "none"
            \/ (v.kind = "int" /\ v.n >= 0
                /\ (NumberMax(f) >= 0 => v.n <= NumberMax(f)))

\* The value a field validator sees in info.data for an earlier field: only
\* fields that validated are present
InfoData(variant, data, f) ==
    IF f \in DOMAIN data /\ FieldTypeOK(variant, f, data[f]) THEN data[f] ELSE PyNone

\* A max-field validator: raises when both are present and max < min
RangeOK(variant, data, lo, hi) ==
    LET v == data[hi]
        w == InfoData(variant, data, lo)
    IN ~(v.kind = "int" /\ w.kind = "int" /\ v.n < w.n)

\* Variation: year_end is not compared with year_start
validate_year_range_Unchecked(variant, data) == TRUE

\* CommonEquipment.validate_year_range
validate_year_range(variant, data) == RangeOK(variant, data, "year_start", "year_end")

\* Variation: ground_speed_mph_max is not compared with ground_speed_mph_min
validate_speed_range_Unchecked(variant, data) == TRUE

\* Sprayer.validate_speed_range
validate_speed_range(variant, data) ==
    RangeOK(variant, data, "ground_speed_mph_min", "ground_speed_mph_max")

\* Implement.validate_hp_range
validate_hp_range(variant, data) ==
    RangeOK(variant, data, "required_hp_min", "required_hp_max")

FieldOK(variant, data, f) ==
    /\ FieldTypeOK(variant, f, data[f])
    /\ f = "year_end" => validate_year_range(variant, data)
    /\ (variant = "Sprayer" /\ f = "ground_speed_mph_max")
          => validate_speed_range(variant, data)
    /\ (variant = "Implement" /\ f = "required_hp_max")
          => validate_hp_range(variant, data)

\* The fields pydantic reports in the ValidationError of Variant(**data)
FieldErrors(variant, data) ==
    {f \in RequiredFields(variant) : f \notin DOMAIN data}
    \cup {f \in Fields(variant) \cap DOMAIN data : ~FieldOK(variant, data, f)}

\* The default of a field that the input does not supply
DefaultValue(variant, f) ==
    CASE f = "category" -> PyStr(LiteralCategory(variant))
      [] f \in {"created_at", "updated_at"} -> Now
      [] OTHER -> PyNone

\* Variation: extra="allow" keeps the unknown keys of the input
model_dump_AllowExtra(variant, data) ==
    [f \in Fields(variant) \cup DOMAIN data |->
        IF f \in DOMAIN data THEN data[f] ELSE DefaultValue(variant, f)]

\* BaseModel.model_dump() of a constructed instance: exactly the fields of
\* the variant (extra="ignore" drops unknown keys; use_enum_values dumps the
\* category as its string)
model_dump(variant, data) ==
    [f \in Fields(variant) |->
        IF f \in DOMAIN data THEN data[f] ELSE DefaultValue(variant, f)]

\* Variation: the sprayer branch is missing
SelectVariant_NoSprayer(category) ==
    IF category = PyStr("tractor") THEN "Tractor"
    ELSE IF category = PyStr("combine") THEN "Combine"
    ELSE IF category = PyStr("implement") THEN "Implement"
    ELSE "CommonEquipment"

\* The variant create_equipment selects for a category value
SelectVariant(category) ==
    IF category = PyStr("tractor") THEN "Tractor"
    ELSE IF category = PyStr("combine") THEN "Combine"
    ELSE IF category = PyStr("sprayer") THEN "Sprayer"
    ELSE IF category = PyStr("implement") THEN "Implement"
    ELSE "CommonEquipment"

\* Variant(**data): the outcome of constructing the variant from the dict
Construct(variant, data) ==
    IF NonStrKey \in DOMAIN data
    THEN [variant |-> variant, raised |-> "TypeError", errors |-> {},
          dump |-> EmptyDict]
    ELSE IF FieldErrors(variant, data) # {}
    THEN [variant |-> variant, raised |-> "ValidationError",
          errors |-> FieldErrors(variant, data), dump |-> EmptyDict]
    ELSE [variant |-> variant, raised |-> "", errors |-> {},
          dump |-> model_dump(variant, data)]

create_equipment(data) == Construct(SelectVariant(Get(data, "category")), data)

(***************************************************************************)
(* scrapers/pipelines.py: ValidationPipeline                               *)
(***************************************************************************)
\* str(e) of the exception: its kind and the number of reported errors
ExceptionText(construction) ==
    [kind |-> "str", s |-> construction.raised,
     n |-> Cardinality(construction.errors)]

\* Variation: the error record carries only the two tags
ErrorItem_TagsOnly(item, text, type_name) ==
    ("_validation_error" :> text) @@ ("_error_type" :> PyStr(type_name))

\* {**item, "_validation_error": text, "_error_type": type_name}
ErrorItem(item, text, type_name) ==
    ("_validation_error" :> text) @@ ("_error_type" :> PyStr(type_name)) @@ item

\* Variation: a validation failure raises DropItem
Validation_process_item_DropItem(item) ==
    LET equipment == create_equipment(item)
    IN IF equipment.raised = ""
       THEN [outcome |-> "returned", item |-> equipment.dump]
       ELSE [outcome |-> "raised", item |-> EmptyDict]

\* ValidationPipeline.process_item: how the call ends ("returned" or
\* "raised") and the dict it returns
Validation_process_item(item) ==
    LET equipment == create_equipment(item)
    IN IF equipment.raised = ""
       THEN [outcome |-> "returned", item |-> equipment.dump]
       ELSE IF equipment.raised = "ValidationError"
       THEN [outcome |-> "returned",
             item |-> ErrorItem(item, ExceptionText(equipment), "ValidationError")]
       ELSE [outcome |-> "returned",
             item |-> ErrorItem(item, ExceptionText(equipment), equipment.raised)]

(***************************************************************************)
(* scrapers/pipelines.py: UnityCatalogWriterPipeline                       *)
(* Buffers hold references (indices into the heap of emitted dicts).       *)
(***************************************************************************)
\* "_validation_error" in item
IsErrorItem(item) == "_validation_error" \in DOMAIN item

\* Variation: the threshold test is strict
BufferFull_Strict(buffer) == Len(buffer) > buffer_size

\* len(buffer) >= self.buffer_size
BufferFull(buffer) == Len(buffer) >= buffer_size

\* The keys of items_by_category / error_items_by_category, in the order
\* their groups are written
GroupedCategories == <<"tractor", "combine", "implement">>

\* The table a category's group is inserted into
TableName(category, is_error) ==
    CASE category = "tractor" -> IF is_error THEN "tractors_error" ELSE "tractors"
      [] category = "combine" -> IF is_error THEN "combines_error" ELSE "combines"
      [] OTHER -> IF is_error THEN "implements_error" ELSE "implements"

Tables ==
    {TableName(GroupedCategories[i], e) : i \in DOMAIN GroupedCategories, e \in BOOLEAN}

\* The single grouping pass over a buffer: category -> list of references
items_by_category(heap, buffer) ==
    [c \in {GroupedCategories[i] : i \in DOMAIN GroupedCategories} |->
        SelectSeq(buffer, LAMBDA r : Get(heap[r], "category") = PyStr(c))]

\* Entries of the call trace
FlushEvent(op, buffer) == [op |-> op, table |-> "", ids |-> buffer, raised |-> FALSE]

InsertEvent(table, group, raised) ==
    [op |-> "insert_records", table |-> table, ids |-> group, raised |-> raised]

CloseEvent(raised) == [op |-> "close", table |-> "", ids |-> <<>>, raised |-> raised]

\* The insert_records calls of one flush, from the i-th group on: empty groups
\* are skipped, and the first call that raises ends the try block
RECURSIVE InsertCalls(_, _, _, _)
InsertCalls(groups, is_error, failing, i) ==
    IF i > Len(GroupedCategories) THEN <<>>
    ELSE LET category == GroupedCategories[i]
             table == TableName(category, is_error)
         IN IF groups[category] = <<>>
            THEN InsertCalls(groups, is_error, failing, i + 1)
            ELSE IF table \in failing
            THEN <<InsertEvent(table, groups[category], TRUE)>>
            ELSE <<InsertEvent(table, groups[category], FALSE)>>
                 \o InsertCalls(groups, is_error, failing, i + 1)

\* Whether an exception raised by insert_records leaves the flush
\* (except Exception catches it)
Propagates(calls) == FALSE

\* Variation: the buffer is cleared only when no insert raised
BufferAfterFlush_KeepOnFailure(buffer, calls) ==
    IF \E i \in DOMAIN calls : calls[i].raised THEN buffer ELSE <<>>

\* The buffer after the flush attempt (self.items_buffer = [])
BufferAfterFlush(buffer, calls) == <<>>

\* Variation: without a table manager the batch is kept for a later write
WriteBatch_KeepWithoutManager(heap, buffer, is_error, manager, failing) ==
    LET op == IF is_error THEN "_write_error_batch" ELSE "_write_batch"
    IN IF manager = "None"
       THEN [events |-> <<FlushEvent(op, buffer)>>, buffer |-> buffer,
             escaped |-> FALSE]
       ELSE LET calls ==
                    InsertCalls(items_by_category(heap, buffer), is_error, failing, 1)
            IN [events |-> <<FlushEvent(op, buffer)>> \o calls,
                buffer |-> BufferAfterFlush(buffer, calls),
                escaped |-> Propagates(calls)]

\* _write_batch / _write_error_batch over a buffer: the calls it makes, the
\* buffer it leaves and whether an exception leaves it
WriteBatch(heap, buffer, is_error, manager, failing) ==
    LET op == IF is_error THEN "_write_error_batch" ELSE "_write_batch"
    IN IF manager = "None"
       THEN [events |-> <<FlushEvent(op, buffer)>>, buffer |-> <<>>,
             escaped |-> FALSE]
       ELSE LET calls ==
                    InsertCalls(items_by_category(heap, buffer), is_error, failing, 1)
            IN [events |-> <<FlushEvent(op, buffer)>> \o calls,
                buffer |-> BufferAfterFlush(buffer, calls),
                escaped |-> Propagates(calls)]

_write_batch(heap, buffer, manager, failing) ==
    WriteBatch(heap, buffer, FALSE, manager, failing)

_write_error_batch(heap, buffer, manager, failing) ==
    WriteBatch(heap, buffer, TRUE, manager, failing)

(***************************************************************************)
(* scrapers/spiders/quality_farm_supply.py: the values of the API response *)
(* and of mapped_data.  A str carries its characters, a float its decimal  *)
(* value.                                                                  *)
(***************************************************************************)
MNone == [kind |-> "none", chars |-> <<>>, mantissa |-> 0, places |-> 0]

MStr(chars) == [kind |-> "str", chars |-> chars, mantissa |-> 0, places |-> 0]

MInt(i) == [kind |-> "int", chars |-> <<>>, mantissa |-> i, places |-> 0]

MFloat(x) == [kind |-> "float", chars |-> <<>>, mantissa |-> x.mantissa, places |-> x.places]

\* bool(value)
Truthy(v) ==
    CASE v.kind = "none" -> FALSE
      [] v.kind = "str" -> v.chars # <<>>
      [] v.kind \in {"int", "float"} -> v.mantissa # 0

\* str(n) for a natural number
RECURSIVE StrOfNat(_)
StrOfNat(n) ==
    IF n < 10 THEN <<Digits[n + 1]>>
    ELSE StrOfNat(n \div 10) \o <<Digits[(n % 10) + 1]>>

\* str(value), also what an f-string renders
str(v) ==
    CASE v.kind = "str" -> v.chars
      [] v.kind = "int" -> StrOfNat(v.mantissa)
      [] v.kind = "none" -> <<"N", "o", "n", "e">>

\* dict.get(key)
spec_get(spec_data, key) == IF key \in DOMAIN spec_data THEN spec_data[key] ELSE MNone

\* mapped_data[key] = value
Put(data, key, value) == (key :> value) @@ data

null == <<"n", "u", "l", "l">>

(***************************************************************************)
(* The spec payload and json.loads                                         *)
(***************************************************************************)
\* A payload: a dict, a str holding some text, or another value
Payload(form, text, dict) == [form |-> form, text |-> text, dict |-> dict]

NoDict == [k \in {} |-> MNone]

\* The spec dict of test_map_complete_api_response
CompleteSpec ==
    ("Years manufactured" :> MStr(<<"1", "9", "8", "7", "-", "1", "9", "9", "8">>))
    @@ ("Hp pto" :> MStr(<<"1", "7">>))
    @@ ("Hp engine" :> MStr(<<"2", "0">>))
    @@ ("Engine make" :> MStr(<<"S", "H", "I", "B", "A", "U", "R", "A">>))
    @@ ("Engine fueld type" :> MStr(<<"D", "I", "E", "S", "E", "L">>))
    @@ ("Engine cylinders cid" :> MStr(<<"3", "/", "7", "7", ".", "2">>))
    @@ ("Transmission std" :> MStr(<<"C", "M">>))
    @@ ("Fwd rev standard" :> MStr(<<"4", "/", "2">>))
    @@ ("Wheelbase inches" :> MStr(<<"6", "3">>))
    @@ ("Pto speed" :> MStr(<<"5", "4", "0">>))
    @@ ("Hitch lift" :> MStr(<<"1", "6", "3", "7">>))
    @@ ("Hydraulics flow" :> MStr(<<"9", ".", "7">>))
    @@ ("Weight" :> MStr(<<"2", "3", "8", "4">>))

\* json.dumps(CompleteSpec)
CompleteSpecText ==
    "{\"Years manufactured\": \"1987-1998\", \"Hp pto\": \"17\", \"Hp engine\": \"20\", \"Engine make\": \"SHIBAURA\", \"Engine fueld type\": \"DIESEL\", \"Engine cylinders cid\": \"3/77.2\", \"Transmission std\": \"CM\", \"Fwd rev standard\": \"4/2\", \"Wheelbase inches\": \"63\", \"Pto speed\": \"540\", \"Hitch lift\": \"1637\", \"Hydraulics flow\": \"9.7\", \"Weight\": \"2384\"}"

\* json.loads(text): the decoded value, or the exception raised
json_loads(text) ==
    CASE text = "{}" -> [raised |-> "", value |-> Payload("dict", "", NoDict)]
      [] text = "{\"Hp pto\": \"25.5 HP\"}" ->
            [raised |-> "", value |-> Payload("dict", "", "Hp pto" :> MStr(<<"2", "5", ".", "5", " ", "H", "P">>))]
      [] text = CompleteSpecText ->
            [raised |-> "", value |-> Payload("dict", "", CompleteSpec)]
      [] text = "[1, 2]" -> [raised |-> "", value |-> Payload("list", "", NoDict)]
      [] text = "null" -> [raised |-> "", value |-> Payload("none", "", NoDict)]
      [] text = "\"text\"" -> [raised |-> "", value |-> Payload("str", "text", NoDict)]
      [] OTHER -> [raised |-> "JSONDecodeError", value |-> Payload("none", "", NoDict)]

\* Variation: a JSONDecodeError is not caught
DecodeSpec_Uncaught(spec) ==
    IF spec.form = "str" THEN json_loads(spec.text)
    ELSE [raised |-> "", value |-> spec]

\* Lines 364-372: a str payload is decoded; a JSONDecodeError gives {}
DecodeSpec(spec) ==
    IF spec.form = "str"
    THEN IF json_loads(spec.text).raised = "JSONDecodeError"
         THEN [raised |-> "", value |-> Payload("dict", "", NoDict)]
         ELSE json_loads(spec.text)
    ELSE [raised |-> "", value |-> spec]

(***************************************************************************)
(* extract_numeric                                                         *)
(***************************************************************************)
\* The texts removed from the value, in the order of the replace calls
Units ==
    <<<<",">>, <<"l", "b", "s">>, <<"H", "P">>, <<"h", "p">>, <<"i", "n">>, <<"g", "a", "l">>, <<"g", "p", "m">>, <<"p", "s", "i">>>>

RECURSIVE RemoveAll(_, _)
RemoveAll(s, olds) ==
    IF olds = <<>> THEN s ELSE RemoveAll(Remove(s, Head(olds)), Tail(olds))

\* Variation: the number after the hyphen of a range is taken
RangePart_Last(cleaned) ==
    IF Contains(cleaned, <<"-">>) /\ ~StartsWith(cleaned, <<"-">>)
    THEN Strip(Split(cleaned, "-")[2])
    ELSE cleaned

\* Lines 399-401: of a range "17-20" the part before the first hyphen
RangePart(cleaned) ==
    IF Contains(cleaned, <<"-">>) /\ ~StartsWith(cleaned, <<"-">>)
    THEN Strip(Split(cleaned, "-")[1])
    ELSE cleaned

\* extract_numeric(value): a float, or None
extract_numeric(value) ==
    IF ~Truthy(value) \/ value = MStr(null) \/ Strip(str(value)) = <<>>
    THEN MNone
    ELSE LET cleaned == RangePart(Strip(RemoveAll(str(value), Units)))
             parts == Split(cleaned, "/")
             parsed == IF Contains(cleaned, <<"/">>) /\ Len(parts) = 2
                       THEN float(parts[2])
                       ELSE float(cleaned)
         IN IF parsed.ok THEN MFloat(parsed.value) ELSE MNone

\* if x := extract_numeric(spec_data.get(key)): mapped_data[field] = x
PutNumeric(data, field, spec_data, key) ==
    LET x == extract_numeric(spec_get(spec_data, key))
    IN IF Truthy(x) THEN Put(data, field, x) ELSE data

(***************************************************************************)
(* The steps of _map_api_response_to_tractor                               *)
(***************************************************************************)
\* if value and value != "null"
HasValue(value) == Truthy(value) /\ value # MStr(null)

\* Variation: year_end is read only when year_start was
MapYears_EndNeedsStart(data, spec_data) ==
    LET years_manufactured == spec_get(spec_data, "Years manufactured")
        years == Split(years_manufactured.chars, "-")
        first == int(Strip(years[1]))
    IN IF Truthy(years_manufactured) /\ years_manufactured.kind = "str" /\ first.ok
       THEN IF Len(years) >= 2 /\ int(Strip(years[2])).ok
            THEN Put(Put(data, "year_start", MInt(first.value)),
                     "year_end", MInt(int(Strip(years[2])).value))
            ELSE Put(data, "year_start", MInt(first.value))
       ELSE data

\* Lines 411-424: "Years manufactured"
MapYears(data, spec_data) ==
    LET years_manufactured == spec_get(spec_data, "Years manufactured")
        years == Split(years_manufactured.chars, "-")
        first == int(Strip(years[1]))
        started == IF first.ok THEN Put(data, "year_start", MInt(first.value)) ELSE data
    IN IF Truthy(years_manufactured) /\ years_manufactured.kind = "str"
       THEN IF Len(years) >= 2 /\ int(Strip(years[2])).ok
            THEN Put(started, "year_end", MInt(int(Strip(years[2])).value))
            ELSE started
       ELSE data

\* Lines 426-431: "Hp pto" and "Hp engine"
MapHorsepower(data, spec_data) ==
    PutNumeric(PutNumeric(data, "pto_hp", spec_data, "Hp pto"),
               "engine_hp", spec_data, "Hp engine")

\* trans_map, as pairs of key and value
trans_map ==
    {<<<<"C", "M">>, <<"m", "a", "n", "u", "a", "l">>>>,
     <<<<"C", "M", "T">>, <<"m", "a", "n", "u", "a", "l">>>>,
     <<<<"M", "A", "N", "U", "A", "L">>, <<"m", "a", "n", "u", "a", "l">>>>,
     <<<<"H", "Y", "D", "R", "O">>, <<"h", "y", "d", "r", "o", "s", "t", "a", "t", "i", "c">>>>,
     <<<<"H", "Y", "D", "R", "O", "S", "T", "A", "T">>, <<"h", "y", "d", "r", "o", "s", "t", "a", "t", "i", "c">>>>,
     <<<<"H", "Y", "D", "R", "O", "S", "T", "A", "T", "I", "C">>, <<"h", "y", "d", "r", "o", "s", "t", "a", "t", "i", "c">>>>,
     <<<<"P", "S">>, <<"p", "o", "w", "e", "r", "s", "h", "i", "f", "t">>>>,
     <<<<"P", "O", "W", "E", "R", "S", "H", "I", "F", "T">>, <<"p", "o", "w", "e", "r", "s", "h", "i", "f", "t">>>>,
     <<<<"C", "V", "T">>, <<"c", "v", "t">>>>,
     <<<<"I", "V", "T">>, <<"i", "v", "t">>>>}

\* trans_map.get(key, default)
trans_map_get(key, default) ==
    IF \E pair \in trans_map : pair[1] = key
    THEN (CHOOSE pair \in trans_map : pair[1] = key)[2]
    ELSE default

\* Variation: unrecognised text is kept as it is written
TransmissionFallback_Raw(transmission_std, trans_value) == Strip(str(transmission_std))

\* The default of the lookup: trans_value.lower()
TransmissionFallback(transmission_std, trans_value) == Lower(trans_value)

\* Lines 433-452: "Transmission std"
MapTransmission(data, spec_data) ==
    LET transmission_std == spec_get(spec_data, "Transmission std")
        trans_value == Upper(Strip(str(transmission_std)))
    IN IF HasValue(transmission_std)
       THEN Put(data, "transmission_type",
                MStr(trans_map_get(trans_value,
                                   TransmissionFallback(transmission_std, trans_value))))
       ELSE data

\* Lines 463-473: one part of the "8F/8R" format
GearPart(data, part) ==
    IF Contains(part, <<"F">>)
    THEN IF int(Remove(part, <<"F">>)).ok
         THEN Put(data, "forward_gears", MInt(int(Remove(part, <<"F">>)).value))
         ELSE data
    ELSE IF Contains(part, <<"R">>)
    THEN IF int(Remove(part, <<"R">>)).ok
         THEN Put(data, "reverse_gears", MInt(int(Remove(part, <<"R">>)).value))
         ELSE data
    ELSE data

\* for part in parts
RECURSIVE GearParts(_, _)
GearParts(data, parts) ==
    IF parts = <<>> THEN data ELSE GearParts(GearPart(data, Head(parts)), Tail(parts))

\* Lines 475-482: the slash-separated format; the first ValueError ends it
GearSlashed(data, parts) ==
    IF Len(parts) >= 2 /\ int(parts[1]).ok
    THEN LET forward == Put(data, "forward_gears", MInt(int(parts[1]).value))
         IN IF int(parts[2]).ok
            THEN Put(forward, "reverse_gears", MInt(int(parts[2]).value))
            ELSE forward
    ELSE data

\* Variation: a digit string of any length is read
GearDigits_Uncapped(data, fwd_rev_str) ==
    Put(Put(data, "forward_gears", MInt(int(<<fwd_rev_str[1]>>).value)),
        "reverse_gears", MInt(int(<<fwd_rev_str[2]>>).value))

\* Lines 484-494: the concatenated format
GearDigits(data, fwd_rev_str) ==
    IF Len(fwd_rev_str) <= 3
    THEN Put(Put(data, "forward_gears", MInt(int(<<fwd_rev_str[1]>>).value)),
             "reverse_gears", MInt(int(<<fwd_rev_str[2]>>).value))
    ELSE data

\* elif fwd_rev_str.isdigit() and len(fwd_rev_str) >= 2
GearDigitsApply(fwd_rev_str) == isdigit(fwd_rev_str) /\ Len(fwd_rev_str) >= 2

\* Lines 454-494: "Fwd rev standard"
MapGears(data, spec_data) ==
    LET fwd_rev_std == spec_get(spec_data, "Fwd rev standard")
        fwd_rev_str == str(fwd_rev_std)
    IN IF HasValue(fwd_rev_std)
       THEN IF Contains(Upper(fwd_rev_str), <<"F">>) /\ Contains(Upper(fwd_rev_str), <<"R">>)
            THEN GearParts(data, Split(Upper(fwd_rev_str), "/"))
            ELSE IF Contains(fwd_rev_str, <<"/">>)
            THEN GearSlashed(data, Split(fwd_rev_str, "/"))
            ELSE IF GearDigitsApply(fwd_rev_str)
            THEN GearDigits(data, fwd_rev_str)
            ELSE data
       ELSE data

\* Lines 496-505: "Hydraulics flow", else "Hydraulics capacity"
MapHydraulics(data, spec_data) ==
    LET flowed == PutNumeric(data, "hydraulic_flow", spec_data, "Hydraulics flow")
    IN IF "hydraulic_flow" \notin DOMAIN flowed
       THEN PutNumeric(flowed, "hydraulic_flow", spec_data, "Hydraulics capacity")
       ELSE flowed

\* Lines 507-515: "Weight", "Wheelbase inches", "Hitch lift"
MapPhysical(data, spec_data) ==
    PutNumeric(PutNumeric(PutNumeric(data, "weight_lbs", spec_data, "Weight"),
                          "wheelbase_inches", spec_data, "Wheelbase inches"),
               "hitch_lift_capacity", spec_data, "Hitch lift")

\* The (key, prefix, suffix) of the sentences added to the description
DescriptionParts ==
    <<[key |-> "Pto speed", prefix |-> <<"P", "T", "O", " ", "S", "p", "e", "e", "d", ":", " ">>, suffix |-> <<" ", "R", "P", "M", ".", " ">>],
      [key |-> "Engine make", prefix |-> <<"E", "n", "g", "i", "n", "e", ":", " ">>, suffix |-> <<".", " ">>],
      [key |-> "Engine fueld type", prefix |-> <<"F", "u", "e", "l", ":", " ">>, suffix |-> <<".", " ">>],
      [key |-> "Engine cylinders cid", prefix |-> <<"C", "y", "l", "i", "n", "d", "e", "r", "s", "/", "C", "I", "D", ":", " ">>, suffix |-> <<".", " ">>]>>

\* Lines 517-541: the sentences, in order, for the keys that have a value
RECURSIVE DescriptionText(_, _)
DescriptionText(spec_data, i) ==
    IF i > Len(DescriptionParts) THEN <<>>
    ELSE LET part == DescriptionParts[i]
             value == spec_get(spec_data, part.key)
         IN (IF HasValue(value) THEN part.prefix \o str(value) \o part.suffix ELSE <<>>)
            \o DescriptionText(spec_data, i + 1)

\* Lines 517-545: the description, stripped, when a key has a value
MapDescription(data, spec_data) ==
    IF \E i \in DOMAIN DescriptionParts : HasValue(spec_get(spec_data, DescriptionParts[i].key))
    THEN Put(data, "description", MStr(Strip(DescriptionText(spec_data, 1))))
    ELSE data

\* Lines 355-361: the fields every result has
BaseFields == {"make", "model", "category", "source_url"}

BaseData(make_name, model_name, source_url) ==
    ("make" :> MStr(make_name)) @@ ("model" :> MStr(model_name))
    @@ ("category" :> MStr(<<"t", "r", "a", "c", "t", "o", "r">>)) @@ ("source_url" :> MStr(source_url))

\* The steps after the payload is known to be a dict
MapSpec(data, spec_data) ==
    MapDescription(
        MapPhysical(
            MapHydraulics(
                MapGears(
                    MapTransmission(
                        MapHorsepower(MapYears(data, spec_data), spec_data),
                        spec_data),
                    spec_data),
                spec_data),
            spec_data),
        spec_data)

\* The spec keys given to extract_numeric
NumericKeys ==
    {"Hp pto", "Hp engine", "Hydraulics flow", "Hydraulics capacity", "Weight",
     "Wheelbase inches", "Hitch lift"}

\* What the calls of extract_numeric return, by spec key
Extracted(spec_data) == [key \in NumericKeys |-> extract_numeric(spec_get(spec_data, key))]

\* _map_api_response_to_tractor(api_data, make_name, model_name, source_url):
\* what it raises, the dict it returns, and what extract_numeric returned
_map_api_response_to_tractor(api, make_name, model_name, source_url) ==
    LET mapped == BaseData(make_name, model_name, source_url)
        spec == IF "spec" \in DOMAIN api THEN api["spec"] ELSE Payload("dict", "", NoDict)
        decoded == DecodeSpec(spec)
    IN IF decoded.raised # ""
       THEN [raised |-> decoded.raised, data |-> NoDict, extracted |-> NoDict]
       ELSE IF decoded.value.form # "dict"
       THEN [raised |-> "", data |-> mapped, extracted |-> NoDict]
       ELSE [raised |-> "", data |-> MapSpec(mapped, decoded.value.dict),
             extracted |-> Extracted(decoded.value.dict)]

(***************************************************************************)
(* scrapers/spiders/quality_farm_supply.py: parsing a title                *)
(***************************************************************************)
\* QualityFarmSupplySpider.known_makes, in the order of the list
known_makes ==
    <<<<"M", "a", "s", "s", "e", "y", " ", "F", "e", "r", "g", "u", "s", "o", "n">>,
      <<"M", "a", "s", "s", "e", "y", "-", "F", "e", "r", "g", "u", "s", "o", "n">>,
      <<"M", "a", "s", "s", "e", "y", "-", "H", "a", "r", "r", "i", "s">>,
      <<"R", "u", "m", "e", "l", "y", " ", "O", "i", "l", " ", "P", "u", "l", "l">>,
      <<"A", "l", "l", "i", "s", " ", "C", "h", "a", "l", "m", "e", "r", "s">>,
      <<"F", "i", "a", "t", " ", "H", "e", "s", "s", "t", "o", "n">>,
      <<"S", "i", "l", "v", "e", "r", " ", "K", "i", "n", "g">>,
      <<"D", "e", "u", "t", "z", "-", "A", "l", "l", "i", "s">>,
      <<"M", "i", "n", "n", "e", "a", "p", "o", "l", "i", "s", "-", "M", "o", "l", "i", "n", "e">>,
      <<"M", "p", "l", "s", "-", "M", "o", "l", "i", "n", "e">>,
      <<"A", "g", "c", "o", " ", "W", "h", "i", "t", "e">>,
      <<"D", "a", "v", "i", "d", " ", "B", "r", "o", "w", "n">>,
      <<"D", "e", "u", "t", "z", "-", "F", "a", "h", "r">>,
      <<"J", "o", "h", "n", " ", "D", "e", "e", "r", "e">>,
      <<"N", "e", "w", " ", "H", "o", "l", "l", "a", "n", "d">>,
      <<"A", "g", "c", "o", " ", "A", "l", "l", "i", "s">>,
      <<"C", "a", "t", "e", "r", "p", "i", "l", "l", "a", "r">>,
      <<"C", "o", "c", "k", "s", "h", "u", "t", "t">>,
      <<"C", "u", "b", " ", "C", "a", "d", "e", "t">>,
      <<"H", "a", "r", "t", "-", "P", "a", "r", "r">>,
      <<"C", "a", "s", "e", " ", "I", "H">>, <<"C", "a", "s", "e", "-", "I", "H">>,
      <<"C", "l", "a", "-", "P", "o", "w", "e", "r">>,
      <<"F", "i", "e", "l", "d", " ", "K", "i", "n", "g">>,
      <<"J", "I", " ", "C", "a", "s", "e">>,
      <<"T", "w", "i", "n", " ", "C", "i", "t", "y">>,
      <<"A", "g", "c", "o", "s", "t", "a", "r">>,
      <<"F", "e", "r", "g", "u", "s", "o", "n">>,
      <<"U", "n", "i", "v", "e", "r", "s", "a", "l">>,
      <<"V", "e", "r", "s", "a", "t", "i", "l", "e">>,
      <<"B", "i", "g", " ", "B", "u", "d">>,
      <<"M", "c", "C", "o", "r", "m", "i", "c", "k">>,
      <<"M", "i", "t", "s", "u", "b", "i", "s", "h", "i">>,
      <<"I", "n", "t", "e", "r", "n", "a", "t", "i", "o", "n", "a", "l">>,
      <<"K", "u", "b", "o", "t", "a">>, <<"L", "a", "n", "d", "i", "n", "i">>,
      <<"L", "e", "y", "l", "a", "n", "d">>, <<"N", "u", "f", "f", "i", "e", "l", "d">>,
      <<"S", "t", "e", "i", "g", "e", "r">>, <<"F", "e", "r", "r", "a", "r", "i">>,
      <<"G", "o", "l", "d", "o", "n", "i">>, <<"B", "e", "l", "a", "r", "u", "s">>,
      <<"C", "o", "-", "O", "p">>, <<"D", "e", "u", "t", "z">>,
      <<"E", "a", "g", "l", "e">>, <<"A", "v", "e", "r", "y">>,
      <<"B", "i", "s", "o", "n">>, <<"C", "l", "a", "a", "s">>,
      <<"F", "e", "n", "d", "t">>, <<"K", "i", "o", "t", "i">>, <<"L", "o", "n", "g">>,
      <<"O", "l", "i", "v", "e", "r">>, <<"S", "a", "m", "e">>,
      <<"S", "a", "t", "o", "h">>, <<"W", "h", "i", "t", "e">>,
      <<"V", "a", "l", "t", "r", "a">>, <<"Y", "a", "n", "m", "a", "r">>,
      <<"Z", "e", "t", "o", "r">>, <<"A", "G", "C", "O">>, <<"F", "o", "r", "d">>,
      <<"C", "B", "T">>, <<"I", "M", "T">>, <<"M", "e", "m", "o">>>>

\* What _parse_make_model returns: None or the tuple (make, model)
ParsedNone == [tuple |-> FALSE, make |-> <<>>, model |-> <<>>]

Parsed(make, model) == [tuple |-> TRUE, make |-> make, model |-> model]

\* The loop over known_makes from the i-th name on: the first name the title
\* starts with and that leaves a model
RECURSIVE MatchKnownMake(_, _)
MatchKnownMake(title, i) ==
    IF i > Len(known_makes) THEN ParsedNone
    ELSE LET make == known_makes[i]
             model == Strip(SubSeq(title, Len(make) + 1, Len(title)))
         IN IF StartsWith(title, make) /\ model # <<>>
            THEN Parsed(make, model)
            ELSE MatchKnownMake(title, i + 1)

\* str.split(maxsplit=1): the first word and what follows its whitespace
SplitFirst(s) ==
    LET t == LStrip(s)
        p == Find(t, <<" ">>)
    IN IF t = <<>> THEN <<>>
       ELSE IF p = 0 THEN <<t>>
       ELSE LET rest == LStrip(SubSeq(t, p + 1, Len(t)))
            IN IF rest = <<>> THEN <<SubSeq(t, 1, p - 1)>>
               ELSE <<SubSeq(t, 1, p - 1), rest>>

\* _parse_make_model(title)
_parse_make_model(title) ==
    LET stripped == Strip(title)
        known == MatchKnownMake(stripped, 1)
        parts == SplitFirst(stripped)
    IN IF known # ParsedNone THEN known
       ELSE IF Len(parts) >= 2 THEN Parsed(parts[1], parts[2])
       ELSE ParsedNone

(***************************************************************************)
(* scrapers/spiders/quality_farm_supply.py: the target-make filter of the  *)
(* API walk                                                                *)
(***************************************************************************)
\* str.replace(old, new) for one-character strings
Replace(s, old, new) == [i \in DOMAIN s |-> IF s[i] = old THEN new ELSE s[i]]

\* _normalize_make_value(value)
_normalize_make_value(value) == Replace(Lower(Strip(value)), " ", "-")

\* Variation: only the make name is compared with the targets
_is_target_make_NameOnly(target_makes, make_name, make_slug) ==
    \/ target_makes = <<>>
    \/ \E i \in DOMAIN target_makes :
          _normalize_make_value(target_makes[i]) = _normalize_make_value(make_name.chars)

\* _is_target_make(make_name, make_slug), with self.target_makes
_is_target_make(target_makes, make_name, make_slug) ==
    LET normalized_name == _normalize_make_value(make_name.chars)
        normalized_slug ==
            _normalize_make_value(IF Truthy(make_slug) THEN make_slug.chars ELSE <<>>)
    IN \/ target_makes = <<>>
       \/ \E i \in DOMAIN target_makes :
             _normalize_make_value(target_makes[i]) \in {normalized_name, normalized_slug}

\* a or b
Or(a, b) == IF Truthy(a) THEN a ELSE b

\* The response of the makes endpoint: a JSON object with its "data" and
\* "makes" lists, a JSON list, or text that does not decode
MakesResponse(form, data, makes) == [form |-> form, data |-> data, makes |-> makes]

\* _load_json(response): the object, the list, or {} for text that does not
\* decode; payload.get("data") or payload.get("makes") or [] raises
\* AttributeError on a list
MakesOf(response) ==
    CASE response.form = "list" -> [raised |-> "AttributeError", makes |-> <<>>]
      [] response.form = "dict" ->
            [raised |-> "",
             makes |-> IF response.data # <<>> THEN response.data ELSE response.makes]
      [] OTHER -> [raised |-> "", makes |-> <<>>]

\* The request parse_makes yields for an entry
ModelsRequest(make_name, make_slug) ==
    [callback |-> "parse_models", tractor_model |-> <<"t", "r", "a", "c", "t", "o", "r", "-", "s", "p", "e", "c", "s", "-", "m", "o", "d", "e", "l">>,
     tractor_make |-> make_slug, make_name |-> make_name, make_slug |-> make_slug]

\* The body of the loop of parse_makes for one entry: the requests it yields
RequestsOfEntry(target_makes, make_entry) ==
    LET make_name == Or(Or(spec_get(make_entry, "make"), spec_get(make_entry, "name")),
                        spec_get(make_entry, "title"))
        given_slug == Or(spec_get(make_entry, "make_slug"), spec_get(make_entry, "slug"))
        make_slug == IF Truthy(given_slug) THEN given_slug
                     ELSE MStr(_normalize_make_value(make_name.chars))
    IN IF ~Truthy(make_name) THEN <<>>
       ELSE IF ~_is_target_make(target_makes, make_name, make_slug) THEN <<>>
       ELSE <<ModelsRequest(make_name, make_slug)>>

\* The loop of parse_makes from the i-th entry on
RECURSIVE RequestsOfMakes(_, _, _)
RequestsOfMakes(target_makes, makes, i) ==
    IF i > Len(makes) THEN <<>>
    ELSE RequestsOfEntry(target_makes, makes[i])
         \o RequestsOfMakes(target_makes, makes, i + 1)

\* parse_makes(response): what it raises and the requests it yields
parse_makes(target_makes, response) ==
    LET loaded == MakesOf(response)
    IN IF loaded.raised # "" THEN [raised |-> loaded.raised, requests |-> <<>>]
       ELSE [raised |-> "", requests |-> RequestsOfMakes(target_makes, loaded.makes, 1)]

(***************************************************************************)
(* scrapers/spiders/quality_farm_supply.py: parse and its strategies       *)
(***************************************************************************)
\* BaseEquipmentSpider.create_equipment_item(**item_data) for a tractor: make
\* and model are stripped, the category is its value, None values are removed
create_tractor_item(item_data) ==
    LET item == ("make" :> MStr(Strip(item_data["make"].chars)))
                @@ ("model" :> MStr(Strip(item_data["model"].chars)))
                @@ ("category" :> MStr(<<"t", "r", "a", "c", "t", "o", "r">>))
                @@ item_data
    IN [k \in {k \in DOMAIN item : item[k] # MNone} |-> item[k]]

\* make not in self.target_makes, when target_makes is not empty
FilteredOut(target_makes, make) ==
    /\ target_makes # <<>>
    /\ \A i \in DOMAIN target_makes : target_makes[i] # make

\* item_data[field] = float(text), left out when float raises ValueError
PutFloat(item_data, field, text) ==
    IF float(text).ok THEN Put(item_data, field, MFloat(float(text).value)) ELSE item_data

\* The first entries of item_data
ItemData(make, model, url) ==
    ("make" :> MStr(make)) @@ ("model" :> MStr(model))
    @@ ("category" :> MStr(<<"t", "r", "a", "c", "t", "o", "r">>)) @@ ("source_url" :> MStr(url))

\* The body of the loop of _parse_table for one row, given the texts of its
\* cells: the items it yields
ItemsOfRow(target_makes, url, cells) ==
    IF Len(cells) < 2 THEN <<>>
    ELSE LET make == Strip(cells[1])
             model == Strip(cells[2])
             first == ItemData(make, model, url)
             second == IF Len(cells) > 2
                       THEN Put(first, "series", MStr(Strip(cells[3]))) ELSE first
             third == IF Len(cells) > 3
                      THEN PutFloat(second, "engine_hp", Strip(cells[4])) ELSE second
             fourth == IF Len(cells) > 4
                       THEN PutFloat(third, "pto_hp", Strip(cells[5])) ELSE third
         IN IF FilteredOut(target_makes, make) THEN <<>>
            ELSE <<create_tractor_item(fourth)>>

\* _parse_table(response, rows) from the i-th row on; the first row is skipped
RECURSIVE ItemsOfRows(_, _, _, _)
ItemsOfRows(target_makes, url, rows, i) ==
    IF i > Len(rows) THEN <<>>
    ELSE ItemsOfRow(target_makes, url, rows[i])
         \o ItemsOfRows(target_makes, url, rows, i + 1)

_parse_table(target_makes, url, rows) == ItemsOfRows(target_makes, url, rows, 2)

\* card.css(selector).get(default=""): the text of the first match
CardText(card, part) == IF part \in DOMAIN card THEN card[part] ELSE <<>>

\* response.urljoin(reference) for a reference that is a URL or an absolute
\* path
Origin(url) ==
    LET scheme_end == Find(url, <<":", "/", "/">>)
        rest == SubSeq(url, scheme_end + 3, Len(url))
        slash == Find(rest, <<"/">>)
    IN IF slash = 0 THEN url ELSE SubSeq(url, 1, scheme_end + 2 + slash - 1)

urljoin(url, reference) ==
    IF Contains(reference, <<":", "/", "/">>) THEN reference ELSE Origin(url) \o reference

\* The body of the loop of _parse_cards for one card: the items it yields
ItemsOfCard(target_makes, url, card) ==
    LET labelled_make == Strip(CardText(card, "make"))
        labelled_model == Strip(CardText(card, "model"))
        card_title == CardText(card, "title")
        parsed == IF (labelled_make = <<>> \/ labelled_model = <<>>) /\ card_title # <<>>
                  THEN _parse_make_model(card_title) ELSE ParsedNone
        make == IF parsed.tuple THEN parsed.make ELSE labelled_make
        model == IF parsed.tuple THEN parsed.model ELSE labelled_model
        first == ItemData(make, model, url)
        second == IF CardText(card, "series") # <<>>
                  THEN Put(first, "series", MStr(Strip(CardText(card, "series"))))
                  ELSE first
        third == IF CardText(card, "hp") # <<>>
                 THEN PutFloat(second, "engine_hp",
                               Strip(Remove(CardText(card, "hp"), <<"H", "P">>)))
                 ELSE second
        fourth == IF CardText(card, "description") # <<>>
                  THEN Put(third, "description", MStr(Strip(CardText(card, "description"))))
                  ELSE third
        fifth == IF CardText(card, "image") # <<>>
                 THEN Put(fourth, "image_url", MStr(urljoin(url, CardText(card, "image"))))
                 ELSE fourth
    IN IF make = <<>> \/ model = <<>> THEN <<>>
       ELSE IF FilteredOut(target_makes, make) THEN <<>>
       ELSE <<create_tractor_item(fifth)>>

\* _parse_cards(response, cards) from the i-th card on
RECURSIVE ItemsOfCards(_, _, _, _)
ItemsOfCards(target_makes, url, cards, i) ==
    IF i > Len(cards) THEN <<>>
    ELSE ItemsOfCard(target_makes, url, cards[i])
         \o ItemsOfCards(target_makes, url, cards, i + 1)

_parse_cards(target_makes, url, cards) == ItemsOfCards(target_makes, url, cards, 1)

\* The requests of an unfiltered page: for each target make, the first
\* models_per_make models
models_per_make == 5

PlaywrightRequest(url, make, model_index) ==
    [callback |-> "parse_model_data", url |-> url, make |-> make,
     model_index |-> model_index]

RECURSIVE FilterRequests(_, _, _, _)
FilterRequests(target_makes, url, i, model_idx) ==
    IF i > Len(target_makes) THEN <<>>
    ELSE IF model_idx >= models_per_make
    THEN FilterRequests(target_makes, url, i + 1, 0)
    ELSE <<PlaywrightRequest(url, target_makes[i], model_idx)>>
         \o FilterRequests(target_makes, url, i, model_idx + 1)

\* The detail requests of strategy 4: the first tractor_link_limit links
tractor_link_limit == 10

FollowRequest(link) == [callback |-> "parse_tractor_detail", link |-> link]

FollowLinks(links) ==
    [i \in 1..(IF Len(links) < tractor_link_limit THEN Len(links) ELSE tractor_link_limit)
        |-> FollowRequest(links[i])]

\* A response as parse sees it: its URL, meta["make_filter"], and what each
\* of its selectors returns
PageResponse(url, make_filter, specs_rows, table_rows, cards, product_items, links) ==
    [url |-> url, make_filter |-> make_filter, specs_rows |-> specs_rows,
     table_rows |-> table_rows, cards |-> cards, product_items |-> product_items,
     links |-> links]

\* What a call of parse did: the strategies it applied, in order, and what it
\* yielded
Applied(strategies, yielded) == [applied |-> strategies, yielded |-> yielded]

\* Variation: a strategy that yields nothing hands over to the next one
parse_FallThrough(target_makes, response) ==
    LET tractor_rows == IF response.specs_rows # <<>> THEN response.specs_rows
                        ELSE response.table_rows
        from_table == _parse_table(target_makes, response.url, tractor_rows)
    IN IF ~Truthy(response.make_filter) /\ target_makes # <<>>
       THEN Applied(<<>>, FilterRequests(target_makes, response.url, 1, 0))
       ELSE IF tractor_rows # <<>> /\ from_table # <<>>
       THEN Applied(<<"_parse_table">>, from_table)
       ELSE IF response.cards # <<>>
       THEN Applied(<<"_parse_cards(tractor_cards)">>,
                    _parse_cards(target_makes, response.url, response.cards))
       ELSE IF response.product_items # <<>>
       THEN Applied(<<"_parse_cards(product_items)">>,
                    _parse_cards(target_makes, response.url, response.product_items))
       ELSE IF response.links # <<>>
       THEN Applied(<<"follow">>, FollowLinks(response.links))
       ELSE Applied(<<>>, <<>>)

\* parse(response), with self.target_makes
parse(target_makes, response) ==
    LET tractor_rows == IF response.specs_rows # <<>> THEN response.specs_rows
                        ELSE response.table_rows
    IN IF ~Truthy(response.make_filter) /\ target_makes # <<>>
       THEN Applied(<<>>, FilterRequests(target_makes, response.url, 1, 0))
       ELSE IF tractor_rows # <<>>
       THEN Applied(<<"_parse_table">>,
                    _parse_table(target_makes, response.url, tractor_rows))
       ELSE IF response.cards # <<>>
       THEN Applied(<<"_parse_cards(tractor_cards)">>,
                    _parse_cards(target_makes, response.url, response.cards))
       ELSE IF response.product_items # <<>>
       THEN Applied(<<"_parse_cards(product_items)">>,
                    _parse_cards(target_makes, response.url, response.product_items))
       ELSE IF response.links # <<>>
       THEN Applied(<<"follow">>, FollowLinks(response.links))
       ELSE Applied(<<>>, <<>>)

(***************************************************************************)
(* core/databricks_utils.py: TableManager and its connection               *)
(***************************************************************************)
\* self._connection is None
NoConnection == 0

\* A TableManager: self._connection (NoConnection, or the number of the
\* connection duckdb.connect returned) and self._initialized
TableManager(connection, initialized) ==
    [_connection |-> connection, _initialized |-> initialized]

\* TableManager.__init__
NewTableManager == TableManager(NoConnection, FALSE)

\* _initialize_unity_catalog(): nothing when already initialized or without a
\* connection; else the extensions are installed and loaded, the secret is
\* created and the catalog attached, any of which may raise
_initialize_unity_catalog(manager, fails) ==
    IF manager._initialized \/ manager._connection = NoConnection
    THEN [manager |-> manager, raised |-> FALSE]
    ELSE IF fails
    THEN [manager |-> manager, raised |-> TRUE]
    ELSE [manager |-> TableManager(manager._connection, TRUE), raised |-> FALSE]

\* What a call of _get_connection did: the manager it leaves, the connection
\* it returned (NoConnection when it raised) and whether it called
\* duckdb.connect
GetResult(manager, raised, value, connected) ==
    [manager |-> manager, raised |-> raised, value |-> value, connected |-> connected]

\* Variation: a connection is opened again as long as the catalog is not
\* initialized
_get_connection_UntilInitialized(manager, fresh, fails) ==
    IF manager._connection = NoConnection \/ ~manager._initialized
    THEN LET made == _initialize_unity_catalog(TableManager(fresh, FALSE), fails)
         IN GetResult(made.manager, made.raised,
                      IF made.raised THEN NoConnection ELSE made.manager._connection,
                      TRUE)
    ELSE GetResult(manager, FALSE, manager._connection, FALSE)

\* _get_connection(): fresh is the connection duckdb.connect() would return
_get_connection(manager, fresh, fails) ==
    IF manager._connection = NoConnection
    THEN LET made == _initialize_unity_catalog(
                         TableManager(fresh, manager._initialized), fails)
         IN GetResult(made.manager, made.raised,
                      IF made.raised THEN NoConnection ELSE made.manager._connection,
                      TRUE)
    ELSE GetResult(manager, FALSE, manager._connection, FALSE)

\* close(): the connection's close() may raise, which leaves the manager as
\* it was
close(manager, fails) ==
    IF manager._connection = NoConnection THEN [manager |-> manager, raised |-> FALSE]
    ELSE IF fails THEN [manager |-> manager, raised |-> TRUE]
    ELSE [manager |-> NewTableManager, raised |-> FALSE]

(***************************************************************************)
(* scrapers/spiders/quality_farm_supply.py: parse_specs and the generic    *)
(* extraction of spec values                                               *)
(***************************************************************************)
\* _extract_spec_value(key, value, item_data): item_data as the call leaves it
_extract_spec_value(key, value, item_data) ==
    IF key = <<>> \/ value = <<>> THEN item_data
    ELSE LET stripped == Strip(value)
         IN IF Contains(key, <<"s", "e", "r", "i", "e", "s">>)
            THEN Put(item_data, "series", MStr(stripped))
            ELSE IF Contains(key, <<"e", "n", "g", "i", "n", "e">>) /\ Contains(key, <<"h", "p">>)
            THEN PutFloat(item_data, "engine_hp",
                          Strip(Remove(Remove(stripped, <<"H", "P">>), <<"h", "p">>)))
            ELSE IF Contains(key, <<"p", "t", "o">>) /\ Contains(key, <<"h", "p">>)
            THEN PutFloat(item_data, "pto_hp",
                          Strip(Remove(Remove(stripped, <<"H", "P">>), <<"h", "p">>)))
            ELSE IF Contains(key, <<"w", "e", "i", "g", "h", "t">>)
            THEN PutFloat(item_data, "weight_lbs",
                          Strip(Remove(Remove(stripped, <<"l", "b", "s">>), <<",">>)))
            ELSE IF Contains(key, <<"t", "r", "a", "n", "s", "m", "i", "s", "s", "i", "o", "n">>)
            THEN Put(item_data, "transmission_type", MStr(Lower(Strip(stripped))))
            ELSE IF Contains(key, <<"m", "o", "d", "e", "l">>) /\ "model" \notin DOMAIN item_data
            THEN Put(item_data, "model", MStr(stripped))
            ELSE item_data

\* An item of the data dict
SpecRow(key, value) == [key |-> key, value |-> value]

\* isinstance(value, (str, int, float))
IsScalar(value) == value.kind \in {"str", "int", "float"}

\* for key, value in data.items(): the rows from position i on
RECURSIVE ExtractRows(_, _, _)
ExtractRows(rows, i, item_data) ==
    IF i > Len(rows) THEN item_data
    ELSE ExtractRows(rows, i + 1,
            IF IsScalar(rows[i].value)
            THEN _extract_spec_value(Lower(rows[i].key), str(rows[i].value), item_data)
            ELSE item_data)

\* An entry of the data list: a dict with its items, or another value
SpecEntry(isdict, items) == [isdict |-> isdict, items |-> items]

\* entry.get("attribute") or entry.get("label") or entry.get("name") or
\* entry.get("key") or entry.get("title")
EntryKey(items) ==
    Or(spec_get(items, "attribute"),
       Or(spec_get(items, "label"),
          Or(spec_get(items, "name"),
             Or(spec_get(items, "key"), spec_get(items, "title")))))

\* entry.get("value") or entry.get("val") or entry.get("data")
EntryValue(items) ==
    Or(spec_get(items, "value"), Or(spec_get(items, "val"), spec_get(items, "data")))

\* for entry in data: the entries from position i on
RECURSIVE ExtractEntries(_, _, _)
ExtractEntries(entries, i, item_data) ==
    IF i > Len(entries) THEN item_data
    ELSE ExtractEntries(entries, i + 1,
            IF /\ entries[i].isdict
               /\ Truthy(EntryKey(entries[i].items))
               /\ Truthy(EntryValue(entries[i].items))
            THEN _extract_spec_value(Lower(str(EntryKey(entries[i].items))),
                                     str(EntryValue(entries[i].items)), item_data)
            ELSE item_data)

\* The response parse_specs is given: the form of
\* payload.get("data") or payload.get("specs") or payload ("dict", "list" or
\* "other"; "payload list" when the payload itself is a list), the "spec"
\* item of a dict if it has one, its other items in their order, the entries
\* of a list, and the make_name and model_name of response.meta
SpecsResponse(form, api, rows, entries, make_name, model_name, url) ==
    [form |-> form, api |-> api, rows |-> rows, entries |-> entries,
     make_name |-> make_name, model_name |-> model_name, url |-> url]

\* What parse_specs did: the exception it raised if any, and the items it
\* yielded
SpecsResult(raised, items) == [raised |-> raised, items |-> items]

\* yield self.create_equipment_item(**item_data) for the result of the
\* structured mapping, whose exception parse_specs does not catch
YieldMapped(mapped) ==
    IF mapped.raised # "" THEN SpecsResult(mapped.raised, <<>>)
    ELSE SpecsResult("", <<create_tractor_item(mapped.data)>>)

\* parse_specs(response)
parse_specs(response) ==
    IF response.form = "payload list" THEN SpecsResult("AttributeError", <<>>)
    ELSE IF response.make_name = <<>> \/ response.model_name = <<>>
    THEN SpecsResult("", <<>>)
    ELSE IF response.form = "dict" /\ "spec" \in DOMAIN response.api
    THEN YieldMapped(_map_api_response_to_tractor(
             response.api, response.make_name, response.model_name, response.url))
    ELSE LET item_data ==
                 BaseData(response.make_name, response.model_name, response.url)
             extracted ==
                 CASE response.form = "dict" -> ExtractRows(response.rows, 1, item_data)
                   [] response.form = "list" ->
                         ExtractEntries(response.entries, 1, item_data)
                   [] OTHER -> item_data
         IN SpecsResult("", <<create_tractor_item(extracted)>>)

(***************************************************************************)
(* State                                                                   *)
(***************************************************************************)
VARIABLES
    input,               \* the raw dict handed to ValidationPipeline.process_item
    output,              \* how that call ended and what it returned
    attempt,             \* the variant create_equipment built and what it raised
    phase,               \* crawl: "constructed", "open", "closed"
    table_manager,       \* self.table_manager: "None" or "connected"
    heap,                \* the dicts emitted by the validation stage, by reference
    pending,             \* reference in flight to the writer stage (0: none)
    items_buffer,        \* self.items_buffer
    error_items_buffer,  \* self.error_items_buffer
    trace,               \* flushes, insert_records calls and close, in call order
    uncaught,            \* an exception left a writer callback
    api_data,            \* the API response given to the spec mapper
    make_name,           \* the mapper's make_name argument
    model_name,          \* the mapper's model_name argument
    source_url,          \* the mapper's source_url argument
    mapper_outcome,      \* "none", or how the mapper call ended: "returned", "raised"
    mapped_data,         \* the dict the mapper returned
    extracted,           \* what extract_numeric returned, by spec key
    title,               \* the title given to _parse_make_model
    parse_outcome,       \* "none", or "returned" once _parse_make_model has returned
    parsed,              \* what _parse_make_model returned
    target_makes,        \* self.target_makes
    makes_response,      \* the response given to parse_makes
    target_call,         \* a call of _is_target_make: its arguments and result
    makes_outcome,       \* "none", or how parse_makes ended: "returned", "raised"
    requests,            \* the requests parse_makes yielded
    page_response,       \* the response given to parse
    page_outcome,        \* "none", or "returned" once parse has returned
    applied,             \* the strategies parse applied, in order
    yielded,             \* what parse yielded
    manager,             \* the TableManager
    manager_calls,       \* calls made on the manager so far
    opened,              \* connections duckdb.connect has returned so far
    connects,            \* calls of duckdb.connect since construction or the last close()
    returned,            \* what _get_connection returned since construction or the last close()
    last_call,           \* the last call on the manager and how it ended
    specs_response,      \* the response parse_specs is given
    specs_outcome,       \* how the call of parse_specs ended
    specs_items          \* the items parse_specs yielded

vars ==
    <<input, output, attempt, phase, table_manager, heap, pending, items_buffer,
      error_items_buffer, trace, uncaught, api_data, make_name, model_name,
      source_url, mapper_outcome, mapped_data, extracted, title, parse_outcome,
      parsed, target_makes, makes_response, target_call, makes_outcome, requests,
      page_response, page_outcome, applied, yielded, manager, manager_calls, opened,
      connects, returned, last_call, specs_response, specs_outcome, specs_items>>

validation_vars == <<input, output, attempt>>

writer_vars ==
    <<phase, table_manager, heap, pending, items_buffer, error_items_buffer,
      trace, uncaught>>

mapper_vars ==
    <<api_data, make_name, model_name, source_url, mapper_outcome, mapped_data,
      extracted>>

parse_vars == <<title, parse_outcome, parsed>>

makes_vars == <<target_makes, makes_response, target_call, makes_outcome, requests>>

page_vars == <<page_response, page_outcome, applied, yielded>>

spider_vars == <<parse_vars, makes_vars, page_vars>>

manager_vars == <<manager, manager_calls, opened, connects, returned, last_call>>

specs_vars == <<specs_response, specs_outcome, specs_items>>

(***************************************************************************)
(* Inputs                                                                  *)
(***************************************************************************)
Absent == [kind |-> "absent", s |-> "", n |-> 0]

\* The dict holding the keys of a candidate whose value is not Absent
MkDict(candidate) ==
    [k \in {k \in DOMAIN candidate : candidate[k] # Absent} |-> candidate[k]]

CategoryInputs ==
    {Absent, PyNone, PyStr("bulldozer")} \cup {PyStr(c) : c \in EquipmentCategory}

YearInputs == {Absent, PyNone, PyInt(1900), PyInt(2000), PyInt(2100), PyInt(2101)}

\* Raw dicts handed to the validation stage
Items ==
    {MkDict(("make" :> mk) @@ ("model" :> md) @@ ("category" :> c)
            @@ ("year_start" :> ys) @@ ("year_end" :> ye)
            @@ ("engine_hp" :> hp) @@ ("extra_field" :> x) @@ (NonStrKey :> ns)) :
        mk \in {Absent, PyStr("John Deere")},
        md \in {Absent, PyNone, PyStr("5075E")},
        c \in CategoryInputs,
        ys \in YearInputs,
        ye \in YearInputs,
        hp \in {Absent, PyInt(75)},
        x \in {Absent, PyStr("should be ignored")},
        ns \in {Absent, PyStr("x")}}

RangeInputs == {Absent, PyNone, PyInt(0), PyInt(5), PyInt(10)}

\* Raw dicts with the min/max pairs of Sprayer and Implement
RangeItems ==
    {MkDict(("make" :> PyStr("John Deere")) @@ ("model" :> PyStr("5075E"))
            @@ ("category" :> PyStr(c))
            @@ ("ground_speed_mph_min" :> smin) @@ ("ground_speed_mph_max" :> smax)
            @@ ("required_hp_min" :> hmin) @@ ("required_hp_max" :> hmax)) :
        c \in {"sprayer", "implement", "tractor"},
        smin \in RangeInputs,
        smax \in RangeInputs,
        hmin \in RangeInputs,
        hmax \in RangeInputs}

\* The make and model texts of the inputs, and their characters
KnownTexts == {"", " ", "John Deere", " John Deere ", "5075E", "5075E "}

Chars(text) ==
    CASE text = "" -> <<>>
      [] text = " " -> <<" ">>
      [] text = "John Deere" -> <<"J", "o", "h", "n", " ", "D", "e", "e", "r", "e">>
      [] text = " John Deere " ->
            <<" ", "J", "o", "h", "n", " ", "D", "e", "e", "r", "e", " ">>
      [] text = "5075E" -> <<"5", "0", "7", "5", "E">>
      [] text = "5075E " -> <<"5", "0", "7", "5", "E", " ">>

\* The text with the given characters
Text(chars) == CHOOSE text \in KnownTexts : Chars(text) = chars

\* BaseEquipmentSpider.create_equipment_item(make, model, category, **kwargs)
create_equipment_item(make, model, category, kwargs) ==
    LET item == ("make" :> PyStr(Text(Strip(Chars(make)))))
                @@ ("model" :> PyStr(Text(Strip(Chars(model)))))
                @@ ("category" :> PyStr(category))
                @@ kwargs
    IN [k \in {k \in DOMAIN item : item[k] # PyNone} |-> item[k]]

\* Dicts with the make and model texts, raw and as create_equipment_item
\* builds them
IdentityItems ==
    {MkDict(("make" :> PyStr(mk)) @@ ("model" :> PyStr(md)) @@ ("category" :> PyStr(c))) :
        mk \in KnownTexts, md \in KnownTexts, c \in EquipmentCategory}
    \cup
    {create_equipment_item(mk, md, c, kwargs) :
        mk \in KnownTexts, md \in KnownTexts, c \in EquipmentCategory,
        kwargs \in {EmptyDict, "year_start" :> PyNone, "year_start" :> PyInt(2000)}}

\* The dicts the validation stage is checked on
ValidationInputs == Items \cup RangeItems \cup IdentityItems

\* Raw dicts yielded by the spider during a crawl
CrawlItems ==
    {MkDict(("make" :> PyStr("John Deere")) @@ ("model" :> md) @@ ("category" :> c)) :
        md \in {Absent, PyStr("5075E")},
        c \in {Absent, PyStr("bulldozer"), PyStr("tractor"), PyStr("combine"),
               PyStr("implement"), PyStr("sprayer"), PyStr("harvester")}}

NoOutput == [outcome |-> "none", item |-> EmptyDict]

NoAttempt == [variant |-> "", raised |-> ""]

(***************************************************************************)
(* Inputs of the spec mapper                                               *)
(***************************************************************************)
\* The strings of at most MaxLen characters of an alphabet
Texts(alphabet) == UNION {[1..n -> alphabet] : n \in 0..MaxLen}

NumericAlphabet == {"1", "0", ".", "-", "/", ",", " "}

GearAlphabet == {"1", "2", "F", "R", "f", "/", " "}

TransmissionAlphabet == {"C", "M", "T", "c", "m", "x", " "}

YearAlphabet == {"1", "9", "-", "x", " "}

\* Values as the API and the tests have them
NumericExamples ==
    {<<"2", "5", ".", "5", " ", "H", "P">>,
     <<"3", ",", "4", "5", "0", " ", "l", "b", "s">>,
     <<"7", "2", ".", "5", " ", "i", "n">>,
     <<"1", "7", "-", "2", "0">>,
     <<"7", ",", "7", "0", "0", " ", "l", "b", "s">>,
     <<"3", "/", "7", "7", ".", "2">>,
     <<"1", "2", " ", "g", "p", "m">>,
     <<"2", "5", "0", "0", " ", "p", "s", "i">>,
     <<"1", "0", " ", "g", "a", "l">>,
     <<"2", "0", "h", "p">>,
     <<"N", "/", "A">>,
     <<"1", "/", "2", "/", "3">>,
     <<"0">>,
     <<"0", ".", "0">>,
     <<"1", "7", " ", "-", " ", "2", "0">>,
     <<"1", "-", "2", "/", "3">>,
     <<"1", "/", "2", "-", "3">>,
     <<" ", "n", "u", "l", "l", " ">>,
     <<"9", ".", "7">>}

GearExamples ==
    {<<"8", "F", "/", "4", "R">>,
     <<"1", "2", "/", "6">>,
     <<"4", "2">>,
     <<"1", "2", "1">>,
     <<"1", "2", "3", "4">>,
     <<"4", "/", "2", "/", "6", "/", "1", "6">>,
     <<"4", "2", "6", "1", "6">>,
     <<"8", "f", "/", "8", "r">>,
     <<"N", "/", "A">>,
     <<"4", "/", "2">>,
     <<"1", "6", "F", "/", "1", "6", "R">>,
     <<"8", "F", "4", "R">>,
     <<"1", "2", "F">>,
     <<" ", "4", "2">>,
     <<"8", "F", "/", "4", "R", "/", "2">>,
     <<"8", "F", "/", "R">>,
     <<"7">>,
     <<"1", "2", " ", "/", " ", "6">>,
     <<"x", "/", "6">>,
     <<"1", "2", "/", "x">>}

TransmissionExamples ==
    {<<"C", "M">>,
     <<"c", "m">>,
     <<"C", "M", "T">>,
     <<"m", "a", "n", "u", "a", "l">>,
     <<"H", "y", "d", "r", "o">>,
     <<"H", "Y", "D", "R", "O", "S", "T", "A", "T">>,
     <<"h", "y", "d", "r", "o", "s", "t", "a", "t", "i", "c">>,
     <<"P", "S">>,
     <<"P", "o", "w", "e", "r", "S", "h", "i", "f", "t">>,
     <<"C", "V", "T">>,
     <<"i", "v", "t">>,
     <<"S", "y", "n", "c", "h", "r", "o", " ", "S", "h", "u", "t", "t", "l", "e">>,
     <<" ", "P", "S", " ">>,
     <<" ", "n", "u", "l", "l", " ">>,
     <<"N", "U", "L", "L">>,
     <<"G", "e", "a", "r">>}

YearExamples ==
    {<<"2", "0", "0", "5", "-", "2", "0", "1", "5">>,
     <<"2", "0", "2", "0">>,
     <<"2", "0", "0", "5", "-">>,
     <<"-", "2", "0", "1", "5">>,
     <<"2", "0", "0", "5", "-", "p", "r", "e", "s", "e", "n", "t">>,
     <<"1", "9", "8", "7", "-", "1", "9", "9", "8">>,
     <<" ", "2", "0", "0", "5", " ", "-", " ", "2", "0", "1", "5", " ">>,
     <<"2", "0", "0", "5", "-", "2", "0", "1", "5", "-", "2", "0", "2", "0">>,
     <<"a", "b", "c">>,
     <<"2", "0", "0", "5", "-", "-", "2", "0", "1", "5">>,
     <<"0", "-", "5">>}

\* None, "null", "" and whitespace
NullValues == {MNone, MStr(null), MStr(<<>>), MStr(<<" ">>), MStr(<<" ", " ">>)}

\* JSON numbers
NumberValues == {MInt(0), MInt(42), MInt(121), MInt(2005)}

DescriptionKeys == {"Pto speed", "Engine make", "Engine fueld type", "Engine cylinders cid"}

\* The spec keys the mapper reads
MappedKeys ==
    NumericKeys \cup DescriptionKeys
    \cup {"Years manufactured", "Transmission std", "Fwd rev standard"}

\* The spec dicts: one key with many values, and some with several keys
SpecDicts ==
    {"Hp pto" :> MStr(s) : s \in Texts(NumericAlphabet)}
    \cup {key :> MStr(s) : key \in NumericKeys, s \in NumericExamples}
    \cup {"Fwd rev standard" :> MStr(s) : s \in Texts(GearAlphabet) \cup GearExamples}
    \cup {"Transmission std" :> MStr(s) :
             s \in Texts(TransmissionAlphabet) \cup TransmissionExamples}
    \cup {"Years manufactured" :> MStr(s) : s \in Texts(YearAlphabet) \cup YearExamples}
    \cup {key :> v : key \in MappedKeys, v \in NullValues \cup NumberValues}
    \cup {[key \in MappedKeys |-> v] : v \in NullValues}
    \cup {("Hydraulics flow" :> flow) @@ ("Hydraulics capacity" :> capacity) :
             flow \in {MNone, MStr(<<"0">>), MStr(<<"9", ".", "7">>)},
             capacity \in {MStr(<<"n", "u", "l", "l">>), MStr(<<"1", "2", " ", "g", "p", "m">>)}}
    \cup {[key \in keys |-> v] :
             keys \in SUBSET DescriptionKeys, v \in {MStr(<<"5", "4", "0">>), MStr(<<" ">>), MInt(3)}}
    \cup {CompleteSpec, NoDict}

JsonTexts ==
    {"{}", "{\"Hp pto\": \"25.5 HP\"}", CompleteSpecText, "[1, 2]", "null", "\"text\"",
     "invalid json {{{", ""}

\* The spec payloads: dicts, JSON texts, a list, None
Payloads ==
    {Payload("dict", "", dict) : dict \in SpecDicts}
    \cup {Payload("str", text, NoDict) : text \in JsonTexts}
    \cup {Payload("list", "", NoDict), Payload("none", "", NoDict)}

\* api_data without a "spec" key
NoSpec == [key \in {} |-> Payload("none", "", NoDict)]

ApiInputs == {"spec" :> payload : payload \in Payloads} \cup {NoSpec}

MakeNames == {<<"K", "u", "b", "o", "t", "a">>, <<"T", "e", "s", "t">>}

ModelNames == {<<"B", "7", "2", "0", "0", "H", "S", "T">>, <<"M", "o", "d", "e", "l">>}

SourceUrls == {<<"h", "t", "t", "p", "s", ":", "/", "/", "e", "x", "a", "m", "p", "l", "e", ".", "c", "o", "m">>}

\* No mapper call is made
MapperIdle ==
    /\ api_data = NoSpec
    /\ make_name = <<>>
    /\ model_name = <<>>
    /\ source_url = <<>>
    /\ mapper_outcome = "none"
    /\ mapped_data = NoDict
    /\ extracted = NoDict

\* _parse_make_model has not been called
ParseIdle ==
    /\ title = <<>>
    /\ parse_outcome = "none"
    /\ parsed = ParsedNone

\* Neither parse_makes nor _is_target_make has been called
MakesIdle ==
    /\ target_makes = <<>>
    /\ makes_response = [form |-> "dict", data |-> <<>>, makes |-> <<>>]
    /\ target_call = [make_name |-> MNone, make_slug |-> MNone, result |-> FALSE]
    /\ makes_outcome = "none"
    /\ requests = <<>>

\* parse has not been called
PageIdle ==
    /\ page_response = PageResponse(<<>>, MNone, <<>>, <<>>, <<>>, <<>>, <<>>)
    /\ page_outcome = "none"
    /\ applied = <<>>
    /\ yielded = <<>>

\* No function of the spider has been called
SpiderIdle == ParseIdle /\ MakesIdle /\ PageIdle

\* A table manager nothing has been called on
ManagerIdle ==
    /\ manager = NewTableManager
    /\ manager_calls = 0
    /\ opened = 0
    /\ connects = 0
    /\ returned = <<>>
    /\ last_call = "__init__"

\* parse_specs has not been called
SpecsIdle ==
    /\ specs_response = SpecsResponse("other", NoSpec, <<>>, <<>>, <<>>, <<>>, <<>>)
    /\ specs_outcome = "none"
    /\ specs_items = <<>>

(***************************************************************************)
(* Validation of one record: pending -> validated | errored                *)
(***************************************************************************)
WriterInit ==
    /\ phase = "constructed"
    /\ table_manager = "None"
    /\ heap = <<>>
    /\ pending = 0
    /\ items_buffer = <<>>
    /\ error_items_buffer = <<>>
    /\ trace = <<>>
    /\ uncaught = FALSE

InitValidation ==
    /\ input \in ValidationInputs
    /\ output = NoOutput
    /\ attempt = NoAttempt
    /\ WriterInit
    /\ MapperIdle
    /\ SpiderIdle
    /\ ManagerIdle
    /\ SpecsIdle

\* ValidationPipeline.process_item(input)
ValidateInput ==
    /\ output = NoOutput
    /\ output' = Validation_process_item(input)
    /\ attempt' = [variant |-> create_equipment(input).variant,
                   raised |-> create_equipment(input).raised]
    /\ UNCHANGED <<input, writer_vars, mapper_vars, spider_vars, manager_vars,
                   specs_vars>>

NextValidation == ValidateInput

SpecValidation == InitValidation /\ [][NextValidation]_vars

(***************************************************************************)
(* A crawl: open_spider, items through both pipeline stages, close_spider   *)
(***************************************************************************)
Init ==
    /\ input = EmptyDict
    /\ output = NoOutput
    /\ attempt = NoAttempt
    /\ WriterInit
    /\ MapperIdle
    /\ SpiderIdle
    /\ ManagerIdle
    /\ SpecsIdle

\* UnityCatalogWriterPipeline.open_spider: get_table_manager may raise
OpenSpider ==
    /\ phase = "constructed"
    /\ phase' = "open"
    /\ items_buffer' = <<>>
    /\ error_items_buffer' = <<>>
    /\ \E connected \in BOOLEAN :
          table_manager' = IF connected THEN "connected" ELSE table_manager
    /\ UNCHANGED <<validation_vars, mapper_vars, spider_vars, heap, pending, trace,
                   uncaught, manager_vars, specs_vars>>

\* The spider yields an item and ValidationPipeline.process_item handles it;
\* its result is on its way to the writer
Validate ==
    /\ phase = "open"
    /\ pending = 0
    /\ Len(heap) < MaxItems
    /\ \E item \in CrawlItems :
          heap' = Append(heap, Validation_process_item(item).item)
    /\ pending' = Len(heap) + 1
    /\ UNCHANGED <<validation_vars, mapper_vars, spider_vars, phase, table_manager,
                   items_buffer, error_items_buffer, trace, uncaught, manager_vars,
                   specs_vars>>

\* The ways insert_records can fail during one flush: not at all, or on the
\* calls for one table (the first call that raises ends the flush)
FailureChoices(is_error, flushing) ==
    IF flushing
    THEN {{}} \cup {{TableName(GroupedCategories[i], is_error)} :
                        i \in DOMAIN GroupedCategories}
    ELSE {{}}

\* UnityCatalogWriterPipeline.process_item(heap[pending])
WriterProcessItem ==
    /\ phase = "open"
    /\ pending # 0
    /\ pending' = 0
    /\ IF IsErrorItem(heap[pending])
       THEN LET appended == Append(error_items_buffer, pending)
            IN \E failing \in FailureChoices(TRUE, BufferFull(appended)) :
                 LET flush == _write_error_batch(heap, appended, table_manager, failing)
                 IN /\ error_items_buffer' =
                          IF BufferFull(appended) THEN flush.buffer ELSE appended
                    /\ trace' = IF BufferFull(appended) THEN trace \o flush.events
                                ELSE trace
                    /\ uncaught' = (uncaught \/ (BufferFull(appended) /\ flush.escaped))
                    /\ UNCHANGED items_buffer
       ELSE LET appended == Append(items_buffer, pending)
            IN \E failing \in FailureChoices(FALSE, BufferFull(appended)) :
                 LET flush == _write_batch(heap, appended, table_manager, failing)
                 IN /\ items_buffer' =
                          IF BufferFull(appended) THEN flush.buffer ELSE appended
                    /\ trace' = IF BufferFull(appended) THEN trace \o flush.events
                                ELSE trace
                    /\ uncaught' = (uncaught \/ (BufferFull(appended) /\ flush.escaped))
                    /\ UNCHANGED error_items_buffer
    /\ UNCHANGED <<validation_vars, mapper_vars, spider_vars, phase, table_manager,
                   heap, manager_vars, specs_vars>>

\* Variation: close_spider flushes only a full buffer
FlushIfAny_OnlyWhenFull(buffer, flush) ==
    IF BufferFull(buffer) THEN flush
    ELSE [events |-> <<>>, buffer |-> buffer, escaped |-> FALSE]

\* What close_spider does for one buffer: nothing when it is empty
FlushIfAny(buffer, flush) ==
    IF buffer # <<>> THEN flush
    ELSE [events |-> <<>>, buffer |-> buffer, escaped |-> FALSE]

\* UnityCatalogWriterPipeline.close_spider
CloseSpider ==
    /\ phase = "open"
    /\ pending = 0
    /\ phase' = "closed"
    /\ \E failing1 \in FailureChoices(FALSE, items_buffer # <<>>),
          failing2 \in FailureChoices(TRUE, error_items_buffer # <<>>),
          close_raises \in IF table_manager # "None" THEN BOOLEAN ELSE {FALSE} :
          LET first == FlushIfAny(items_buffer,
                          _write_batch(heap, items_buffer, table_manager, failing1))
              second == FlushIfAny(error_items_buffer,
                          _write_error_batch(heap, error_items_buffer,
                                             table_manager, failing2))
              closing == IF table_manager # "None"
                         THEN <<CloseEvent(close_raises)>> ELSE <<>>
          IN /\ items_buffer' = first.buffer
             /\ error_items_buffer' = second.buffer
             /\ trace' = trace \o first.events \o second.events \o closing
             /\ uncaught' = (uncaught \/ first.escaped \/ second.escaped)
    /\ UNCHANGED <<validation_vars, mapper_vars, spider_vars, table_manager, heap,
                   pending, manager_vars, specs_vars>>

Next ==
    \/ OpenSpider
    \/ Validate
    \/ WriterProcessItem
    \/ CloseSpider

Spec == Init /\ [][Next]_vars

(***************************************************************************)
(* One call of the spec mapper                                             *)
(***************************************************************************)
InitMapper ==
    /\ api_data \in ApiInputs
    /\ make_name \in MakeNames
    /\ model_name \in ModelNames
    /\ source_url \in SourceUrls
    /\ mapper_outcome = "none"
    /\ mapped_data = NoDict
    /\ extracted = NoDict
    /\ input = EmptyDict
    /\ output = NoOutput
    /\ attempt = NoAttempt
    /\ WriterInit
    /\ SpiderIdle
    /\ ManagerIdle
    /\ SpecsIdle

\* QualityFarmSupplySpider._map_api_response_to_tractor(api_data, make_name,
\* model_name, source_url)
MapApiResponse ==
    /\ mapper_outcome = "none"
    /\ \E result \in {_map_api_response_to_tractor(api_data, make_name, model_name,
                                                     source_url)} :
          /\ mapper_outcome' = IF result.raised = "" THEN "returned" ELSE "raised"
          /\ mapped_data' = result.data
          /\ extracted' = result.extracted
    /\ UNCHANGED <<api_data, make_name, model_name, source_url, validation_vars,
                   writer_vars, spider_vars, manager_vars, specs_vars>>

NextMapper == MapApiResponse

SpecMapper == InitMapper /\ [][NextMapper]_vars

(***************************************************************************)
(* One call of _parse_make_model                                           *)
(***************************************************************************)
\* Titles: a known manufacturer or another first word, what joins it to the
\* rest, the rest, and whitespace around the whole
TitleHeads ==
    {known_makes[i] : i \in DOMAIN known_makes}
        \cup {<<>>, <<"C", "a", "s", "e">>, <<"F", "o", "r", "d", "s", "o", "n">>, <<"S", "i", "n", "g", "l", "e", "W", "o", "r", "d">>, <<"U", "n", "k", "n", "o", "w", "n", "B", "r", "a", "n", "d">>, <<"j", "o", "h", "n", " ", "d", "e", "e", "r", "e">>}

TitleJoints == {<<>>, <<" ">>, <<" ", " ">>, <<"-">>}

TitleTails == {<<>>, <<"5", "0", "7", "5", "E">>, <<"F", "a", "r", "m", "a", "l", "l", " ", "7", "5", "C">>, <<"I", "H", " ", "F", "a", "r", "m", "a", "l", "l", " ", "7", "5", "C">>, <<"s", "o", "n", " ", "M", "a", "j", "o", "r">>, <<"M", "7", "-", "1", "7", "2">>}

Titles ==
    {left \o head \o joint \o tail \o right :
        left \in {<<>>, <<" ", " ">>}, head \in TitleHeads, joint \in TitleJoints,
        tail \in TitleTails, right \in {<<>>, <<" ">>}}

InitParse ==
    /\ title \in Titles
    /\ parse_outcome = "none"
    /\ parsed = ParsedNone
    /\ input = EmptyDict
    /\ output = NoOutput
    /\ attempt = NoAttempt
    /\ WriterInit
    /\ MapperIdle
    /\ MakesIdle
    /\ PageIdle
    /\ ManagerIdle
    /\ SpecsIdle

\* QualityFarmSupplySpider._parse_make_model(title)
ParseMakeModel ==
    /\ parse_outcome = "none"
    /\ \E result \in {_parse_make_model(title)} :
          /\ parsed' = result
          /\ parse_outcome' = "returned"
    /\ UNCHANGED <<title, validation_vars, writer_vars, mapper_vars, makes_vars,
                   page_vars, manager_vars, specs_vars>>

NextParse == ParseMakeModel

SpecParse == InitParse /\ [][NextParse]_vars

(***************************************************************************)
(* The makes stage of the API walk                                         *)
(***************************************************************************)
\* The class attribute target_makes and other settings of it
DefaultTargets == <<<<"J", "o", "h", "n", " ", "D", "e", "e", "r", "e">>, <<"C", "a", "s", "e", " ", "I", "H">>, <<"N", "e", "w", " ", "H", "o", "l", "l", "a", "n", "d">>, <<"K", "u", "b", "o", "t", "a">>, <<"M", "a", "s", "s", "e", "y", " ", "F", "e", "r", "g", "u", "s", "o", "n">>>>

TargetLists == {<<>>, DefaultTargets, <<<<" ", "j", "o", "h", "n", " ", "d", "e", "e", "r", "e", " ">>>>, <<<<"K", "U", "B", "O", "T", "A">>, <<"c", "a", "s", "e", "-", "i", "h">>>>, <<<<>>>>}

\* Entries of the makes list
MakeEntries ==
    {("make" :> MStr(<<"J", "o", "h", "n", " ", "D", "e", "e", "r", "e">>)) @@ ("make_slug" :> MStr(<<"j", "o", "h", "n", "-", "d", "e", "e", "r", "e">>)),
     ("name" :> MStr(<<"C", "A", "S", "E", " ", "I", "H">>)) @@ ("slug" :> MStr(<<"c", "a", "s", "e", "-", "i", "h">>)),
     ("title" :> MStr(<<"F", "e", "n", "d", "t">>)),
     ("make" :> MNone) @@ ("name" :> MStr(<<"K", "u", "b", "o", "t", "a">>)) @@ ("make_slug" :> MStr(<<>>)),
     ("make_slug" :> MStr(<<"j", "o", "h", "n", "-", "d", "e", "e", "r", "e">>)),
     ("make" :> MStr(<<"D", "e", "e", "r", "e">>)) @@ ("slug" :> MStr(<<"J", "o", "h", "n", " ", "D", "e", "e", "r", "e">>)),
     ("make" :> MStr(<<" ">>))}

MakeLists == UNION {[1..n -> MakeEntries] : n \in 0..MaxMakes}

MakesResponses ==
    {MakesResponse("dict", makes, <<>>) : makes \in MakeLists}
    \cup {MakesResponse("dict", <<>>, makes) : makes \in MakeLists}
    \cup {MakesResponse("list", <<>>, <<>>), MakesResponse("undecodable", <<>>, <<>>)}

\* Arguments of a call of _is_target_make
TargetNames == {MStr(<<"J", "o", "h", "n", " ", "D", "e", "e", "r", "e">>), MStr(<<"J", "O", "H", "N", " ", " ", "D", "E", "E", "R", "E">>), MStr(<<"K", "u", "b", "o", "t", "a", " ">>), MStr(<<"F", "e", "n", "d", "t">>)}

TargetSlugs == {MNone, MStr(<<>>), MStr(<<"j", "o", "h", "n", "-", "d", "e", "e", "r", "e">>), MStr(<<"C", "a", "s", "e", " ", "I", "H">>), MStr(<<"f", "e", "n", "d", "t">>)}

NoCall == [make_name |-> MNone, make_slug |-> MNone, result |-> FALSE]

InitMakes ==
    /\ target_makes \in TargetLists
    /\ makes_response \in MakesResponses
    /\ target_call = NoCall
    /\ makes_outcome = "none"
    /\ requests = <<>>
    /\ input = EmptyDict
    /\ output = NoOutput
    /\ attempt = NoAttempt
    /\ WriterInit
    /\ MapperIdle
    /\ ParseIdle
    /\ PageIdle
    /\ ManagerIdle
    /\ SpecsIdle

\* QualityFarmSupplySpider._is_target_make(make_name, make_slug)
IsTargetMake ==
    /\ target_call = NoCall
    /\ \E name \in TargetNames, slug \in TargetSlugs :
          target_call' = [make_name |-> name, make_slug |-> slug,
                          result |-> _is_target_make(target_makes, name, slug)]
    /\ UNCHANGED <<target_makes, makes_response, makes_outcome, requests,
                   validation_vars, writer_vars, mapper_vars, parse_vars, page_vars,
                   manager_vars, specs_vars>>

\* QualityFarmSupplySpider.parse_makes(response)
ParseMakes ==
    /\ makes_outcome = "none"
    /\ \E result \in {parse_makes(target_makes, makes_response)} :
          /\ makes_outcome' = IF result.raised = "" THEN "returned" ELSE "raised"
          /\ requests' = result.requests
    /\ UNCHANGED <<target_makes, makes_response, target_call, validation_vars,
                   writer_vars, mapper_vars, parse_vars, page_vars, manager_vars,
                   specs_vars>>

NextMakes ==
    \/ IsTargetMake
    \/ ParseMakes

SpecMakes == InitMakes /\ [][NextMakes]_vars

(***************************************************************************)
(* One call of parse                                                       *)
(***************************************************************************)
PageUrl == <<"h", "t", "t", "p", "s", ":", "/", "/", "w", "w", "w", ".", "q", "u", "a", "l", "i", "t", "y", "f", "a", "r", "m", "s", "u", "p", "p", "l", "y", ".", "c", "o", "m", "/", "p", "a", "g", "e", "s", "/", "t", "r", "a", "c", "t", "o", "r", "-", "s", "p", "e", "c", "s">>

\* Table rows by the texts of their td cells; a header row has none
HeaderRow == <<>>

RowLists ==
    {<<>>,
     <<HeaderRow>>,
     <<HeaderRow, <<<<"J", "o", "h", "n", " ", "D", "e", "e", "r", "e">>, <<"5", "0", "7", "5", "E">>, <<"5", "E", " ", "S", "e", "r", "i", "e", "s">>, <<"7", "5">>, <<" ", "6", "0", ".", "5", " ">>>>>>,
     <<HeaderRow, <<<<"J", "o", "h", "n", " ", "D", "e", "e", "r", "e">>, <<"5", "0", "7", "5", "E">>, <<"5", "E", " ", "S", "e", "r", "i", "e", "s">>>>, <<<<"C", "a", "s", "e", " ", "I", "H">>, <<"F", "a", "r", "m", "a", "l", "l", " ", "7", "5", "C">>>>>>,
     <<HeaderRow, <<<<"K", "u", "b", "o", "t", "a">>>>>>,
     <<<<<<"J", "o", "h", "n", " ", "D", "e", "e", "r", "e">>, <<"5", "0", "7", "5", "E">>>>>>,
     <<HeaderRow, <<<<" ", "F", "e", "n", "d", "t", " ">>, <<" ", "7", "2", "4", " ">>, <<>>, <<"n", "/", "a">>>>>>}

\* Cards by the texts their selectors find
NoText == [part \in {} |-> <<>>]

CardLists ==
    {<<>>,
     <<("make" :> <<"J", "o", "h", "n", " ", "D", "e", "e", "r", "e">>) @@ ("model" :> <<"5", "0", "7", "5", "E">>) @@ ("series" :> <<" ", "5", "E", " ">>)
          @@ ("hp" :> <<"7", "5", " ", "H", "P">>) @@ ("description" :> <<" ", "U", "t", "i", "l", "i", "t", "y", " ", "t", "r", "a", "c", "t", "o", "r", " ">>)
          @@ ("image" :> <<"/", "i", "m", "a", "g", "e", "s", "/", "5", "0", "7", "5", "e", ".", "p", "n", "g">>),
       ("title" :> <<"K", "u", "b", "o", "t", "a", " ", "M", "7", "-", "1", "7", "2">>)>>,
     <<("title" :> <<"S", "i", "n", "g", "l", "e", "W", "o", "r", "d">>)>>,
     <<NoText>>,
     <<("make" :> <<"K", "u", "b", "o", "t", "a">>) @@ ("title" :> <<"C", "a", "s", "e", " ", "I", "H", " ", "F", "a", "r", "m", "a", "l", "l", " ", "7", "5", "C">>) @@ ("hp" :> <<"n", "/", "a">>)
          @@ ("image" :> <<"h", "t", "t", "p", "s", ":", "/", "/", "c", "d", "n", ".", "e", "x", "a", "m", "p", "l", "e", ".", "c", "o", "m", "/", "7", "5", "c", ".", "p", "n", "g">>)>>,
     <<("make" :> <<"F", "e", "n", "d", "t">>) @@ ("model" :> <<"7", "2", "4">>)>>}

ProductItemLists ==
    {<<>>, <<NoText>>, <<("title" :> <<"J", "o", "h", "n", " ", "D", "e", "e", "r", "e", " ", "5", "0", "7", "5", "E">>), ("title" :> <<"F", "e", "n", "d", "t", " ", "7", "2", "4">>)>>}

LinkLists ==
    {<<>>,
     <<<<"/", "t", "r", "a", "c", "t", "o", "r", "/", "j", "o", "h", "n", "-", "d", "e", "e", "r", "e", "-", "5", "0", "7", "5", "e">>>>,
     [i \in 1..(tractor_link_limit + 1) |-> <<"/", "t", "r", "a", "c", "t", "o", "r", "/">> \o StrOfNat(i)]}

\* The table selectors: table.specs-table tr matches a part of what table tr
\* matches
PageResponses ==
    {PageResponse(PageUrl, make_filter, specs_rows, table_rows, cards, product_items,
                  links) :
        make_filter \in {MNone, MStr(<<"J", "o", "h", "n", " ", "D", "e", "e", "r", "e">>)},
        specs_rows \in RowLists, table_rows \in RowLists,
        cards \in CardLists, product_items \in ProductItemLists,
        links \in LinkLists}

InitPage ==
    /\ target_makes \in {<<>>, DefaultTargets, <<<<"F", "e", "n", "d", "t">>>>}
    /\ page_response \in {r \in PageResponses :
                             r.specs_rows = <<>> \/ r.specs_rows = r.table_rows}
    /\ page_outcome = "none"
    /\ applied = <<>>
    /\ yielded = <<>>
    /\ makes_response = MakesResponse("dict", <<>>, <<>>)
    /\ target_call = NoCall
    /\ makes_outcome = "none"
    /\ requests = <<>>
    /\ input = EmptyDict
    /\ output = NoOutput
    /\ attempt = NoAttempt
    /\ WriterInit
    /\ MapperIdle
    /\ ParseIdle
    /\ ManagerIdle
    /\ SpecsIdle

\* QualityFarmSupplySpider.parse(response)
ParsePage ==
    /\ page_outcome = "none"
    /\ \E result \in {parse(target_makes, page_response)} :
          /\ page_outcome' = "returned"
          /\ applied' = result.applied
          /\ yielded' = result.yielded
    /\ UNCHANGED <<page_response, validation_vars, writer_vars, mapper_vars,
                   parse_vars, makes_vars, manager_vars, specs_vars>>

NextPage == ParsePage

SpecPage == InitPage /\ [][NextPage]_vars

(***************************************************************************)
(* A TableManager in use                                                   *)
(***************************************************************************)
InitManager ==
    /\ manager = NewTableManager
    /\ manager_calls = 0
    /\ opened = 0
    /\ connects = 0
    /\ returned = <<>>
    /\ last_call = "__init__"
    /\ input = EmptyDict
    /\ output = NoOutput
    /\ attempt = NoAttempt
    /\ WriterInit
    /\ MapperIdle
    /\ SpiderIdle
    /\ SpecsIdle

\* TableManager._get_connection(), as create_table, insert_records and the
\* other methods call it
GetConnection ==
    /\ manager_calls < MaxCalls
    /\ manager_calls' = manager_calls + 1
    /\ \E fails \in BOOLEAN :
          \E result \in {_get_connection(manager, opened + 1, fails)} :
             /\ manager' = result.manager
             /\ opened' = IF result.connected THEN opened + 1 ELSE opened
             /\ connects' = IF result.connected THEN connects + 1 ELSE connects
             /\ returned' = IF result.raised THEN returned
                            ELSE Append(returned, result.value)
             /\ last_call' = IF result.raised THEN "_get_connection raised"
                             ELSE "_get_connection returned"
    /\ UNCHANGED <<validation_vars, writer_vars, mapper_vars, spider_vars,
                   specs_vars>>

\* TableManager.close()
Close ==
    /\ manager_calls < MaxCalls
    /\ manager_calls' = manager_calls + 1
    /\ \E fails \in BOOLEAN :
          \E result \in {close(manager, fails)} :
             /\ manager' = result.manager
             /\ connects' = IF result.raised THEN connects ELSE 0
             /\ returned' = IF result.raised THEN returned ELSE <<>>
             /\ last_call' = IF result.raised THEN "close raised" ELSE "close returned"
    /\ UNCHANGED <<opened, validation_vars, writer_vars, mapper_vars, spider_vars,
                   specs_vars>>

NextManager ==
    \/ GetConnection
    \/ Close

SpecManager == InitManager /\ [][NextManager]_vars

(***************************************************************************)
(* One call of parse_specs                                                 *)
(***************************************************************************)
\* Keys of the data dict
SpecKeys ==
    {<<"S", "e", "r", "i", "e", "s">>, <<"E", "n", "g", "i", "n", "e", " ", "H", "P">>, <<"e", "n", "g", "i", "n", "e", " ", "h", "p", " ", "(", "r", "a", "t", "e", "d", ")">>, <<"P", "T", "O", " ", "H", "P">>, <<"W", "e", "i", "g", "h", "t">>,
     <<"T", "r", "a", "n", "s", "m", "i", "s", "s", "i", "o", "n">>, <<"M", "o", "d", "e", "l">>, <<"C", "o", "l", "o", "r">>}

\* Values of the data dict
SpecValues == {MStr(<<"1", "0", "0", " ", "H", "P">>), MStr(<<" ", "5", ",", "0", "0", "0", " ", "l", "b", "s">>), MStr(<<"H", "y", "d", "r", "o">>), MInt(85), MNone}

SpecRows == {SpecRow(key, value) : key \in SpecKeys, value \in SpecValues}

\* The items of a dict in their order: no key twice
SpecRowLists ==
    UNION {{rows \in [1..n -> SpecRows] :
               \A i, j \in 1..n : rows[i].key = rows[j].key => i = j} :
           n \in 0..MaxRows}

SpecEntries ==
    {SpecEntry(TRUE, ("label" :> MStr(<<"E", "n", "g", "i", "n", "e", " ", "H", "P">>)) @@ ("value" :> MStr(<<"1", "0", "0", " ", "H", "P">>))),
     SpecEntry(TRUE, ("name" :> MStr(<<"e", "n", "g", "i", "n", "e", " ", "h", "p">>)) @@ ("val" :> MInt(85))),
     SpecEntry(TRUE, ("attribute" :> MStr(<<>>)) @@ ("title" :> MStr(<<"S", "e", "r", "i", "e", "s">>))
                     @@ ("value" :> MNone) @@ ("data" :> MStr(<<"5", "E">>))),
     SpecEntry(TRUE, ("key" :> MStr(<<"W", "e", "i", "g", "h", "t">>)) @@ ("value" :> MInt(0))),
     SpecEntry(TRUE, "value" :> MStr(<<"H", "y", "d", "r", "o">>)),
     SpecEntry(FALSE, NoDict)}

EntryLists == UNION {[1..n -> SpecEntries] : n \in 0..MaxRows}

SpecsResponses ==
    {SpecsResponse("dict", NoSpec, rows, <<>>, make, <<"5", "0", "7", "5", "E">>, PageUrl) :
        rows \in SpecRowLists, make \in {<<"J", "o", "h", "n", " ", "D", "e", "e", "r", "e">>, <<>>}}
    \cup {SpecsResponse("dict", "spec" :> payload, rows, <<>>, <<"J", "o", "h", "n", " ", "D", "e", "e", "r", "e">>, <<"5", "0", "7", "5", "E">>,
                        PageUrl) :
            payload \in {Payload("dict", "", CompleteSpec), Payload("list", "", NoDict),
                         Payload("str", "invalid json {{{", NoDict)},
            rows \in {<<>>, <<SpecRow(<<"S", "e", "r", "i", "e", "s">>, MStr(<<"H", "y", "d", "r", "o">>))>>}}
    \cup {SpecsResponse("list", NoSpec, <<>>, entries, <<"J", "o", "h", "n", " ", "D", "e", "e", "r", "e">>, model, PageUrl) :
            entries \in EntryLists, model \in {<<"5", "0", "7", "5", "E">>, <<>>}}
    \cup {SpecsResponse(form, NoSpec, <<>>, <<>>, <<"J", "o", "h", "n", " ", "D", "e", "e", "r", "e">>, <<"5", "0", "7", "5", "E">>, PageUrl) :
            form \in {"other", "payload list"}}

InitSpecs ==
    /\ specs_response \in SpecsResponses
    /\ specs_outcome = "none"
    /\ specs_items = <<>>
    /\ input = EmptyDict
    /\ output = NoOutput
    /\ attempt = NoAttempt
    /\ WriterInit
    /\ MapperIdle
    /\ SpiderIdle
    /\ ManagerIdle

\* QualityFarmSupplySpider.parse_specs(response)
ParseSpecs ==
    /\ specs_outcome = "none"
    /\ \E result \in {parse_specs(specs_response)} :
          /\ specs_outcome' = IF result.raised = "" THEN "returned" ELSE "raised"
          /\ specs_items' = result.items
    /\ UNCHANGED <<specs_response, validation_vars, writer_vars, mapper_vars,
                   spider_vars, manager_vars>>

NextSpecs == ParseSpecs

SpecSpecs == InitSpecs /\ [][NextSpecs]_vars

(***************************************************************************)
(* Properties                                                              *)
(***************************************************************************)
Validated == output # NoOutput

C9_CanonicalDictionary ==
    (Validated /\ attempt.raised = "") =>
        /\ output.outcome = "returned"
        /\ DOMAIN output.item = Fields(attempt.variant)
        /\ "extra_field" \notin DOMAIN output.item
        /\ attempt.variant \in {"CommonEquipment", "Implement"}
              => "engine_hp" \notin DOMAIN output.item
        /\ "_validation_error" \notin DOMAIN output.item
        /\ "_error_type" \notin DOMAIN output.item

C9_Witness ==
    /\ Validated
    /\ attempt.raised = ""
    /\ attempt.variant = "Tractor"
    /\ "extra_field" \in DOMAIN input
    /\ "year_end" \notin DOMAIN input
    /\ "year_end" \in DOMAIN output.item

\* C10: create_equipment builds Tractor, Combine, Sprayer or Implement exactly
\* when category is tractor, combine, sprayer or implement, and
\* CommonEquipment for every other category value (missing and unrecognised
\* included); a constructed record's category matches its variant.
C10_SchemaDispatch ==
    Validated =>
        LET category == Get(input, "category")
        IN /\ attempt.variant = "Tractor" <=> category = PyStr("tractor")
           /\ attempt.variant = "Combine" <=> category = PyStr("combine")
           /\ attempt.variant = "Sprayer" <=> category = PyStr("sprayer")
           /\ attempt.variant = "Implement" <=> category = PyStr("implement")
           /\ attempt.variant = "CommonEquipment" <=>
                 category \notin {PyStr("tractor"), PyStr("combine"),
                                  PyStr("sprayer"), PyStr("implement")}
           /\ attempt.raised = "" =>
                 /\ attempt.variant = "Tractor" <=> output.item["category"] = PyStr("tractor")
                 /\ attempt.variant = "Combine" <=> output.item["category"] = PyStr("combine")
                 /\ attempt.variant = "Sprayer" <=> output.item["category"] = PyStr("sprayer")
                 /\ attempt.variant = "Implement"
                       <=> output.item["category"] = PyStr("implement")

C10_Witness ==
    /\ Validated
    /\ attempt = [variant |-> "Sprayer", raised |-> ""]
    /\ Get(input, "category") = PyStr("sprayer")

(***************************************************************************)
(* Properties of the schema's invariants                                   *)
(***************************************************************************)
\* The input is valid in everything except, possibly, the order of a pair
IdentityValid(d) ==
    /\ NonStrKey \notin DOMAIN d
    /\ Get(d, "make").kind = "str"
    /\ Get(d, "model").kind = "str"
    /\ Get(d, "category").kind = "str"
    /\ Get(d, "category").s \in EquipmentCategory

YearsWithinBounds(d) ==
    \A f \in {"year_start", "year_end"} :
        Get(d, f).kind = "int" => (Get(d, f).n >= 1900 /\ Get(d, f).n <= 2100)

\* Both values of a pair are present and the second is below the first
Inverted(d, lo, hi) ==
    /\ Get(d, lo).kind = "int"
    /\ Get(d, hi).kind = "int"
    /\ Get(d, hi).n < Get(d, lo).n

\* C11: for year_start and year_end in [1900, 2100] (each possibly absent or
\* None), construction fails with a validation error when both are present
\* and year_start > year_end and succeeds otherwise; every validated record
\* with both years has year_end >= year_start.
C11_YearInvariant ==
    /\ (Validated /\ input \in Items /\ IdentityValid(input) /\ YearsWithinBounds(input)) =>
          /\ Inverted(input, "year_start", "year_end") =>
                attempt.raised = "ValidationError"
          /\ ~Inverted(input, "year_start", "year_end") => attempt.raised = ""
    /\ (Validated /\ attempt.raised = "") =>
          ~Inverted(output.item, "year_start", "year_end")

C11_Witness ==
    /\ Validated
    /\ Get(input, "year_start") = PyInt(2100)
    /\ Get(input, "year_end") = PyInt(2000)
    /\ IdentityValid(input)
    /\ attempt.raised = "ValidationError"

\* C12: a sprayer with both ground-speed bounds, and an implement with both
\* required-hp bounds, fails construction when max < min and is constructed
\* when max >= min; every validated record with both bounds of a pair has
\* max >= min.
C12_PairedRanges ==
    /\ (Validated /\ input \in RangeItems /\ attempt.variant = "Sprayer") =>
          /\ Inverted(input, "ground_speed_mph_min", "ground_speed_mph_max") =>
                attempt.raised = "ValidationError"
          /\ ~Inverted(input, "ground_speed_mph_min", "ground_speed_mph_max") =>
                attempt.raised = ""
    /\ (Validated /\ input \in RangeItems /\ attempt.variant = "Implement") =>
          /\ Inverted(input, "required_hp_min", "required_hp_max") =>
                attempt.raised = "ValidationError"
          /\ ~Inverted(input, "required_hp_min", "required_hp_max") =>
                attempt.raised = ""
    /\ (Validated /\ attempt.raised = "") =>
          /\ ~Inverted(output.item, "ground_speed_mph_min", "ground_speed_mph_max")
          /\ ~Inverted(output.item, "required_hp_min", "required_hp_max")

C12_Witness ==
    /\ Validated
    /\ attempt = [variant |-> "Sprayer", raised |-> "ValidationError"]
    /\ Get(input, "ground_speed_mph_min") = PyInt(10)
    /\ Get(input, "ground_speed_mph_max") = PyInt(5)

\* A non-empty string with no leading or trailing whitespace
TrimmedNonEmpty(v) ==
    /\ v.kind = "str"
    /\ Chars(v.s) # <<>>
    /\ Strip(Chars(v.s)) = Chars(v.s)

\* A string that is empty or whitespace only
Blank(v) == v.kind = "str" /\ Strip(Chars(v.s)) = <<>>

\* C13: every record that validates has make and model that are non-empty
\* strings without leading or trailing whitespace and a category of the
\* enumeration; an input whose make or model is empty or whitespace-only
\* does not validate.
C13_IdentityFieldsTrimmedNonEmpty ==
    /\ (Validated /\ attempt.raised = "") =>
          /\ TrimmedNonEmpty(output.item["make"])
          /\ TrimmedNonEmpty(output.item["model"])
          /\ output.item["category"].kind = "str"
          /\ output.item["category"].s \in EquipmentCategory
    /\ (Validated /\ (Blank(Get(input, "make")) \/ Blank(Get(input, "model")))) =>
          attempt.raised # ""

(***************************************************************************)
(* Properties of the writer stage                                          *)
(***************************************************************************)
\* References held by a list
Refs(buffer) == {buffer[i] : i \in DOMAIN buffer}

InsertEvents == {i \in DOMAIN trace : trace[i].op = "insert_records"}

FlushEvents == {i \in DOMAIN trace : trace[i].op \in {"_write_batch", "_write_error_batch"}}

\* The sink worked throughout: a manager was connected and no insert raised
WorkingSink ==
    /\ table_manager = "connected"
    /\ \A i \in InsertEvents : ~trace[i].raised

ErrorTables == {"tractors_error", "combines_error", "sprayers_error", "implements_error"}

\* The table the interface names for a category (tractors, combines,
\* sprayers, implements and their *_error counterparts)
CategoryTable(category, is_error) ==
    CASE category = "tractor" -> IF is_error THEN "tractors_error" ELSE "tractors"
      [] category = "combine" -> IF is_error THEN "combines_error" ELSE "combines"
      [] category = "sprayer" -> IF is_error THEN "sprayers_error" ELSE "sprayers"
      [] OTHER -> IF is_error THEN "implements_error" ELSE "implements"

\* C2: once the stream is closed with a working sink, every record that
\* failed validation, whatever its category value, has been handed to an
\* error sink.
C2_ErrorRecordsReachErrorSink ==
    (phase = "closed" /\ WorkingSink) =>
        \A r \in DOMAIN heap :
            IsErrorItem(heap[r]) =>
                \E i \in InsertEvents :
                    trace[i].table \in ErrorTables /\ r \in Refs(trace[i].ids)

\* C3: with a working sink every flushed record of category tractor, combine,
\* sprayer or implement is passed to the sink of its table (validated
\* records) or of its _error table (error records), and no insert call
\* carries an empty group.
C3_FlushRoutesByCategory ==
    WorkingSink =>
        /\ \A f \in FlushEvents :
             \A r \in Refs(trace[f].ids) :
                \A c \in {"tractor", "combine", "sprayer", "implement"} :
                    Get(heap[r], "category") = PyStr(c) =>
                        \E i \in InsertEvents :
                            /\ trace[i].table = CategoryTable(c, IsErrorItem(heap[r]))
                            /\ r \in Refs(trace[i].ids)
        /\ \A i \in InsertEvents : trace[i].ids # <<>>

\* The events a step appends to the trace
NewEvents == SubSeq(trace', Len(trace) + 1, Len(trace'))

\* C4: after a flush attempt the flushed buffer is empty, whether the sink
\* write succeeded, raised or no sink was connected, and no exception leaves
\* process_item or close_spider.
C4_BufferClearedAfterFlush ==
    [][/\ (\E i \in DOMAIN NewEvents : NewEvents[i].op = "_write_batch")
             => items_buffer' = <<>>
       /\ (\E i \in DOMAIN NewEvents : NewEvents[i].op = "_write_error_batch")
             => error_items_buffer' = <<>>
       /\ ~uncaught']_vars

C4_Witness ==
    /\ phase = "open"
    /\ \E i \in InsertEvents : trace[i].raised /\ trace[i].table = "tractors"
    /\ items_buffer = <<>>
    /\ ~uncaught

\* The number of times a reference was passed to insert_records
Deliveries(r) ==
    Cardinality({<<i, j>> \in InsertEvents \X (1..MaxItems) :
                    j \in DOMAIN trace[i].ids /\ trace[i].ids[j] = r})

\* C5: no record is passed to insert_records more than once, whether writes
\* succeed or fail.
C5_AtMostOnceDelivery == \A r \in DOMAIN heap : Deliveries(r) <= 1

C5_Witness ==
    /\ phase = "closed"
    /\ \E i \in InsertEvents : trace[i].raised /\ Len(trace[i].ids) = buffer_size
    /\ \E i \in InsertEvents : ~trace[i].raised
    /\ \A r \in DOMAIN heap : Deliveries(r) = 1

\* C6: close_spider leaves both buffers empty; whatever was buffered is
\* flushed, the validated buffer before the error buffer, and the table
\* manager is closed after the flushes.
C6_CloseFlushesPartialBuffers ==
    [][(phase = "open" /\ phase' = "closed") =>
          /\ items_buffer' = <<>>
          /\ error_items_buffer' = <<>>
          /\ items_buffer # <<>> =>
                \E i \in DOMAIN NewEvents :
                    /\ NewEvents[i].op = "_write_batch"
                    /\ NewEvents[i].ids = items_buffer
          /\ error_items_buffer # <<>> =>
                \E j \in DOMAIN NewEvents :
                    /\ NewEvents[j].op = "_write_error_batch"
                    /\ NewEvents[j].ids = error_items_buffer
          /\ \A i, j \in DOMAIN NewEvents :
                (NewEvents[i].op = "_write_batch"
                 /\ NewEvents[j].op = "_write_error_batch") => i < j
          /\ \A i \in DOMAIN NewEvents :
                NewEvents[i].op = "close" => i = Len(NewEvents)
          /\ table_manager = "connected" =>
                (NewEvents # <<>> /\ NewEvents[Len(NewEvents)].op = "close")]_vars

C6_Witness ==
    /\ phase = "closed"
    /\ table_manager = "connected"
    /\ \E i, j \in FlushEvents :
          /\ trace[i].op = "_write_batch" /\ Len(trace[i].ids) < buffer_size
          /\ trace[j].op = "_write_error_batch" /\ Len(trace[j].ids) < buffer_size
          /\ i < j
    /\ trace[Len(trace)].op = "close"
    /\ items_buffer = <<>>
    /\ error_items_buffer = <<>>

\* C7: between callbacks each buffer holds fewer than buffer_size records;
\* error records are only in the error buffer and all others only in the
\* validated buffer; a flush made by process_item carries exactly buffer_size
\* records of its own kind, so filling one buffer never flushes the other.
C7_BoundedBuffers ==
    /\ Len(items_buffer) < buffer_size
    /\ Len(error_items_buffer) < buffer_size
    /\ \A r \in Refs(items_buffer) : ~IsErrorItem(heap[r])
    /\ \A r \in Refs(error_items_buffer) : IsErrorItem(heap[r])
    /\ \A f \in FlushEvents :
          /\ \A r \in Refs(trace[f].ids) :
                IsErrorItem(heap[r]) <=> trace[f].op = "_write_error_batch"
          /\ phase = "open" => Len(trace[f].ids) = buffer_size

C7_Witness ==
    /\ phase = "open"
    /\ pending = 0
    /\ \E f \in FlushEvents : trace[f].op = "_write_error_batch"
    /\ Len(items_buffer) = buffer_size - 1
    /\ error_items_buffer = <<>>

(***************************************************************************)
(* Properties of the spec mapper                                           *)
(***************************************************************************)
Mapped == mapper_outcome # "none"

\* The payload is a dict as it stands
IsDict == "spec" \in DOMAIN api_data /\ api_data["spec"].form = "dict"

\* The raw value of a spec key (None when there is none)
Raw(key) ==
    IF IsDict /\ key \in DOMAIN api_data["spec"].dict
    THEN api_data["spec"].dict[key]
    ELSE MNone

IsText(v) == v.kind = "str"

Has(field) == field \in DOMAIN mapped_data

GearsAre(forward, reverse) ==
    /\ Has("forward_gears")
    /\ mapped_data["forward_gears"] = MInt(forward)
    /\ Has("reverse_gears")
    /\ mapped_data["reverse_gears"] = MInt(reverse)

\* The value contains both F and R, in either case
HasFR(s) == Contains(Upper(s), <<"F">>) /\ Contains(Upper(s), <<"R">>)

\* Digits followed by one letter
Counted(part, letter) ==
    /\ Len(part) >= 2
    /\ part[Len(part)] = letter
    /\ isdigit(SubSeq(part, 1, Len(part) - 1))

CountOf(part) == DigitsValue(SubSeq(part, 1, Len(part) - 1))

\* C14: "Fwd rev standard" is read by three notations in priority order:
\* (a) with both F and R (in either case), "8F/4R" gives (8, 4); (b) otherwise
\* slash-delimited with at least two parts, the first part is forward and the
\* second reverse, "12/6" gives (12, 6); (c) otherwise a digit string of
\* length 2 or 3 gives its first digit as forward and its remaining digits as
\* reverse, "42" gives (4, 2).
C14_GearNotation ==
    (Mapped /\ IsText(Raw("Fwd rev standard"))) =>
        LET s == Raw("Fwd rev standard").chars
            parts == Split(s, "/")
            upper == Split(Upper(s), "/")
        IN /\ (HasFR(s) /\ Len(upper) = 2 /\ Counted(upper[1], "F")
                 /\ Counted(upper[2], "R")) =>
                 GearsAre(CountOf(upper[1]), CountOf(upper[2]))
           /\ (~HasFR(s) /\ Len(parts) >= 2 /\ isdigit(parts[1]) /\ isdigit(parts[2])) =>
                 GearsAre(DigitsValue(parts[1]), DigitsValue(parts[2]))
           /\ (~HasFR(s) /\ Len(parts) = 1 /\ isdigit(s) /\ Len(s) \in {2, 3}) =>
                 GearsAre(DigitsValue(<<s[1]>>), DigitsValue(Tail(s)))
           /\ s = <<"8", "F", "/", "4", "R">> => GearsAre(8, 4)
           /\ s = <<"1", "2", "/", "6">> => GearsAre(12, 6)
           /\ s = <<"4", "2">> => GearsAre(4, 2)

\* The value is in none of the three notations (a digit string of length 1,
\* or longer than 3, included)
OutsideGearNotations(s) ==
    /\ ~HasFR(s)
    /\ ~Contains(s, <<"/">>)
    /\ ~(isdigit(s) /\ Len(s) \in {2, 3})

\* C15: for every gear value outside the three notations, a digit-only
\* string longer than 3 characters or a single digit included, the mapper
\* returns without raising and neither forward_gears nor reverse_gears is in
\* the output.
C15_ConservativeGearRefusal ==
    (Mapped /\ IsText(Raw("Fwd rev standard"))
            /\ OutsideGearNotations(Raw("Fwd rev standard").chars)) =>
        /\ mapper_outcome = "returned"
        /\ ~Has("forward_gears")
        /\ ~Has("reverse_gears")

C15_Witness ==
    /\ mapper_outcome = "returned"
    /\ Raw("Fwd rev standard") = MStr(<<"1", "2", "3", "4">>)
    /\ ~Has("forward_gears")

\* The value without the unit texts and the commas, trimmed
Cleaned(s) ==
    Strip(Remove(Remove(Remove(Remove(Remove(Remove(Remove(Remove(s,
        <<",">>), <<"l", "b", "s">>), <<"H", "P">>), <<"h", "p">>), <<"i", "n">>), <<"g", "a", "l">>), <<"g", "p", "m">>), <<"p", "s", "i">>))

\* Of a text with a hyphen that is not its first character, the part before
\* the first hyphen
BeforeHyphen(c) ==
    IF Find(c, <<"-">>) > 1 THEN Strip(SubSeq(c, 1, Find(c, <<"-">>) - 1)) ELSE c

\* Of a text with a single slash, the part after the slash
AfterSlash(c) ==
    IF Cardinality({i \in DOMAIN c : c[i] = "/"}) = 1
    THEN SubSeq(c, Find(c, <<"/">>) + 1, Len(c))
    ELSE c

\* The number of the text, None when it does not parse
NumberOf(c) == IF float(c).ok THEN MFloat(float(c).value) ELSE MNone

\* C16: extract_numeric removes ",", "lbs", "HP", "hp", "in", "gal", "gpm",
\* "psi" and trims; with a hyphen not at position 0 it takes the part before
\* the first hyphen ("17-20" gives 17.0, "7,700 lbs" gives 7700.0); with a
\* single "/" it takes the part after the slash ("3/77.2" gives 77.2);
\* otherwise it parses the whole; a parse failure gives None, never an
\* exception.
C16_ExtractNumeric ==
    Mapped =>
        /\ mapper_outcome = "returned"
        /\ \A key \in NumericKeys :
              IsText(Raw(key)) =>
                 /\ extracted[key] = NumberOf(AfterSlash(BeforeHyphen(Cleaned(Raw(key).chars))))
                 /\ Raw(key).chars = <<"1", "7", "-", "2", "0">> => extracted[key] = MFloat(Normal(17, 0))
                 /\ Raw(key).chars = <<"7", ",", "7", "0", "0", " ", "l", "b", "s">> => extracted[key] = MFloat(Normal(7700, 0))
                 /\ Raw(key).chars = <<"3", "/", "7", "7", ".", "2">> => extracted[key] = MFloat(Normal(772, 1))

C16_Witness ==
    /\ mapper_outcome = "returned"
    /\ Raw("Weight") = MStr(<<"7", ",", "7", "0", "0", " ", "l", "b", "s">>)
    /\ extracted["Weight"] = MFloat(Normal(7700, 0))
    /\ mapped_data["weight_lbs"] = MFloat(Normal(7700, 0))

\* None, the string "null", or an empty or whitespace-only string
NullSentinel(v) ==
    \/ v = MNone
    \/ (IsText(v) /\ (v.chars = <<"n", "u", "l", "l">> \/ Strip(v.chars) = <<>>))

\* The output fields that one spec key alone fills
FieldsOf(key) ==
    CASE key = "Years manufactured" -> {"year_start", "year_end"}
      [] key = "Hp pto" -> {"pto_hp"}
      [] key = "Hp engine" -> {"engine_hp"}
      [] key = "Transmission std" -> {"transmission_type"}
      [] key = "Fwd rev standard" -> {"forward_gears", "reverse_gears"}
      [] key = "Weight" -> {"weight_lbs"}
      [] key = "Wheelbase inches" -> {"wheelbase_inches"}
      [] key = "Hitch lift" -> {"hitch_lift_capacity"}

\* C17: for every mapped spec key whose raw value is None, "null", or empty
\* or whitespace-only, the corresponding output field is not in the output
\* (hydraulic_flow when both of its keys are so).
C17_NullSentinelsLeaveFieldsAbsent ==
    (Mapped /\ IsDict) =>
        /\ mapper_outcome = "returned"
        /\ \A key \in DOMAIN api_data["spec"].dict \cap
                       {"Years manufactured", "Hp pto", "Hp engine", "Transmission std",
                        "Fwd rev standard", "Weight", "Wheelbase inches", "Hitch lift"} :
              NullSentinel(Raw(key)) => \A field \in FieldsOf(key) : ~Has(field)
        /\ (NullSentinel(Raw("Hydraulics flow")) /\ NullSentinel(Raw("Hydraulics capacity")))
              => ~Has("hydraulic_flow")

\* The transmission type the table gives for a trimmed, uppercased text
TableTransmission(code) ==
    CASE code \in {<<"C", "M">>, <<"C", "M", "T">>, <<"M", "A", "N", "U", "A", "L">>} -> <<"m", "a", "n", "u", "a", "l">>
      [] code \in {<<"H", "Y", "D", "R", "O">>, <<"H", "Y", "D", "R", "O", "S", "T", "A", "T">>, <<"H", "Y", "D", "R", "O", "S", "T", "A", "T", "I", "C">>} -> <<"h", "y", "d", "r", "o", "s", "t", "a", "t", "i", "c">>
      [] code \in {<<"P", "S">>, <<"P", "O", "W", "E", "R", "S", "H", "I", "F", "T">>} -> <<"p", "o", "w", "e", "r", "s", "h", "i", "f", "t">>
      [] code = <<"C", "V", "T">> -> <<"c", "v", "t">>
      [] code = <<"I", "V", "T">> -> <<"i", "v", "t">>
      [] OTHER -> <<>>

\* C18: the "Transmission std" text, trimmed and uppercased, is looked up as
\* CM/CMT/MANUAL -> manual, HYDRO/HYDROSTAT/HYDROSTATIC -> hydrostatic,
\* PS/POWERSHIFT -> powershift, CVT -> cvt, IVT -> ivt; every other text
\* that is not empty and not "null" gives its trimmed, lowercased form; the
\* mapper does not raise.
C18_TransmissionMapping ==
    (Mapped /\ IsText(Raw("Transmission std"))
            /\ Raw("Transmission std").chars \notin {<<>>, <<"n", "u", "l", "l">>}) =>
        LET text == Raw("Transmission std").chars
            code == Upper(Strip(text))
        IN /\ mapper_outcome = "returned"
           /\ Has("transmission_type")
           /\ mapped_data["transmission_type"] =
                 MStr(IF TableTransmission(code) # <<>> THEN TableTransmission(code)
                      ELSE Lower(Strip(text)))

C18_Witness ==
    /\ mapper_outcome = "returned"
    /\ Raw("Transmission std") = MStr(<<"S", "y", "n", "c", "h", "r", "o", " ", "S", "h", "u", "t", "t", "l", "e">>)
    /\ mapped_data["transmission_type"] = MStr(<<"s", "y", "n", "c", "h", "r", "o", " ", "s", "h", "u", "t", "t", "l", "e">>)

\* The text before the first hyphen (the whole text when there is none)
FirstSegment(s) ==
    IF Find(s, <<"-">>) = 0 THEN s ELSE SubSeq(s, 1, Find(s, <<"-">>) - 1)

\* The text after the first hyphen
AfterFirst(s) == SubSeq(s, Find(s, <<"-">>) + 1, Len(s))

\* C19: "Years manufactured" is split on hyphens; year_start is set from the
\* first segment iff it parses as an integer, year_end from the second
\* segment iff there is one and it parses as an integer, each independently;
\* a field is never set otherwise ("2005-2015" gives 2005 and 2015, "2020"
\* gives year_start 2020 and no year_end).
C19_YearRangeParsing ==
    (Mapped /\ IsText(Raw("Years manufactured"))) =>
        LET s == Raw("Years manufactured").chars
            first == int(FirstSegment(s))
            second == int(FirstSegment(AfterFirst(s)))
            two == Find(s, <<"-">>) # 0
        IN /\ mapper_outcome = "returned"
           /\ Has("year_start") <=> first.ok
           /\ first.ok => mapped_data["year_start"] = MInt(first.value)
           /\ Has("year_end") <=> (two /\ second.ok)
           /\ (two /\ second.ok) => mapped_data["year_end"] = MInt(second.value)
           /\ s = <<"2", "0", "0", "5", "-", "2", "0", "1", "5">> =>
                 /\ mapped_data["year_start"] = MInt(2005)
                 /\ mapped_data["year_end"] = MInt(2015)
           /\ s = <<"2", "0", "2", "0">> =>
                 /\ mapped_data["year_start"] = MInt(2020)
                 /\ ~Has("year_end")

C19_Witness ==
    /\ mapper_outcome = "returned"
    /\ Raw("Years manufactured") = MStr(<<"-", "2", "0", "1", "5">>)
    /\ ~Has("year_start")
    /\ mapped_data["year_end"] = MInt(2015)

\* The payload is a str that does not decode, or decodes to something that
\* is not a dict
Undecodable ==
    /\ "spec" \in DOMAIN api_data
    /\ api_data["spec"].form = "str"
    /\ \/ json_loads(api_data["spec"].text).raised # ""
       \/ json_loads(api_data["spec"].text).value.form # "dict"

\* C20: the mapper returns, for every input, a dict with make, model,
\* category and source_url; when the spec payload is a str that does not
\* decode as JSON, or decodes to a non-mapping, it does not raise and
\* returns exactly those four fields.
C20_BaseFieldsAlways ==
    Mapped =>
        /\ mapper_outcome = "returned"
        /\ BaseFields \subseteq DOMAIN mapped_data
        /\ mapped_data["make"] = MStr(make_name)
        /\ mapped_data["model"] = MStr(model_name)
        /\ mapped_data["category"] = MStr(<<"t", "r", "a", "c", "t", "o", "r">>)
        /\ mapped_data["source_url"] = MStr(source_url)
        /\ Undecodable => DOMAIN mapped_data = BaseFields

C20_Witness ==
    /\ mapper_outcome = "returned"
    /\ api_data = ("spec" :> Payload("str", "invalid json {{{", NoDict))
    /\ DOMAIN mapped_data = BaseFields

\* The numeric spec keys and the output field of each
NumericFieldOf ==
    [key \in {"Hp pto", "Hp engine", "Hydraulics flow", "Weight", "Wheelbase inches",
              "Hitch lift"} |->
        CASE key = "Hp pto" -> "pto_hp"
          [] key = "Hp engine" -> "engine_hp"
          [] key = "Hydraulics flow" -> "hydraulic_flow"
          [] key = "Weight" -> "weight_lbs"
          [] key = "Wheelbase inches" -> "wheelbase_inches"
          [] key = "Hitch lift" -> "hitch_lift_capacity"]

\* C28: every numeric spec key whose raw value extract_numeric parses to a
\* number gives its output field with exactly that number, 0 included; the
\* field is absent only when extract_numeric returned None.
C28_NumericFieldsIncludingZero ==
    (mapper_outcome = "returned" /\ extracted # NoDict) =>
        \A key \in DOMAIN NumericFieldOf :
            extracted[key] # MNone =>
                /\ Has(NumericFieldOf[key])
                /\ mapped_data[NumericFieldOf[key]] = extracted[key]

\* C29: for every "Fwd rev standard" value the output has both
\* forward_gears and reverse_gears or neither of them.
C29_GearFieldsAtomic ==
    mapper_outcome = "returned" => (Has("forward_gears") <=> Has("reverse_gears"))

\* The insert_records calls made by the flush at position f of the trace
CallsOfFlush(f) ==
    {i \in InsertEvents : i > f /\ \A k \in (f + 1)..i : trace[k].op = "insert_records"}

\* C26: when the insert_records call for one category's group of a flush
\* raises, the groups of the other categories of the same batch are still
\* passed to insert_records.
C26_SinkFailureIsolation ==
    \A f \in FlushEvents :
        (\E i \in CallsOfFlush(f) : trace[i].raised) =>
            \A c \in {GroupedCategories[n] : n \in DOMAIN GroupedCategories} :
                (\E r \in Refs(trace[f].ids) : Get(heap[r], "category") = PyStr(c)) =>
                    \E i \in CallsOfFlush(f) :
                        /\ trace[i].table
                              = TableName(c, trace[f].op = "_write_error_batch")
                        /\ trace[i].ids
                              = items_by_category(heap, trace[f].ids)[c]

\* C27: with no table manager connected, no callback of the writer raises,
\* insert_records is never called, and every flush, whether made by
\* process_item at buffer_size records or by close_spider, leaves its buffer
\* empty.
C27_NoManagerDropsBatches ==
    [][(table_manager' = "None" /\ phase' # "constructed") =>
          /\ ~uncaught'
          /\ \A i \in DOMAIN trace' : trace'[i].op # "insert_records"
          /\ \A i \in DOMAIN NewEvents :
                /\ NewEvents[i].op = "_write_batch" =>
                      (NewEvents[i].ids # <<>> /\ items_buffer' = <<>>)
                /\ NewEvents[i].op = "_write_error_batch" =>
                      (NewEvents[i].ids # <<>> /\ error_items_buffer' = <<>>)
          /\ Len(items_buffer') < buffer_size
          /\ Len(error_items_buffer') < buffer_size
          /\ phase' = "closed" => (items_buffer' = <<>> /\ error_items_buffer' = <<>>)]_vars

C27_Witness ==
    /\ phase = "closed"
    /\ table_manager = "None"
    /\ ~uncaught
    /\ InsertEvents = {}
    /\ \E f, g \in FlushEvents :
          /\ f < g
          /\ Len(trace[f].ids) = buffer_size
          /\ trace[g].ids # <<>>
          /\ Len(trace[g].ids) < buffer_size
    /\ items_buffer = <<>>
    /\ error_items_buffer = <<>>

(***************************************************************************)
(* Properties of the title parser                                          *)
(***************************************************************************)
KnownMakeSet == {known_makes[i] : i \in DOMAIN known_makes}

\* The title without the whitespace around it
TitleText == Strip(title)

\* What follows a prefix of the trimmed title, trimmed
Remainder(prefix) == Strip(SubSeq(TitleText, Len(prefix) + 1, Len(TitleText)))

\* The known manufacturer names the trimmed title starts with, with something
\* left after them
KnownPrefixes ==
    {make \in KnownMakeSet : StartsWith(TitleText, make) /\ Remainder(make) # <<>>}

LongestKnownPrefix ==
    CHOOSE make \in KnownPrefixes : \A other \in KnownPrefixes : Len(other) <= Len(make)

\* The whitespace-separated words of a text
RECURSIVE WordsOf(_)
WordsOf(s) ==
    LET t == LStrip(s)
        p == Find(t, <<" ">>)
    IN IF t = <<>> THEN <<>>
       ELSE IF p = 0 THEN <<t>>
       ELSE <<SubSeq(t, 1, p - 1)>> \o WordsOf(SubSeq(t, p + 1, Len(t)))

NonEmptyTrimmed(s) == s # <<>> /\ Strip(s) = s

\* C22: the make is the longest known manufacturer name that is a prefix of
\* the trimmed title and leaves a non-empty remainder, which is the model;
\* with no such name the result is (first word, rest); a title of one word,
\* or of none, gives None; a returned make and model are non-empty and
\* trimmed.
C22_LongestMatch ==
    parse_outcome = "returned" =>
        /\ KnownPrefixes # {} =>
              parsed = Parsed(LongestKnownPrefix, Remainder(LongestKnownPrefix))
        /\ (KnownPrefixes = {} /\ Len(WordsOf(title)) >= 2) =>
              parsed = Parsed(WordsOf(title)[1], Remainder(WordsOf(title)[1]))
        /\ Len(WordsOf(title)) <= 1 => parsed = ParsedNone
        /\ parsed.tuple => (NonEmptyTrimmed(parsed.make) /\ NonEmptyTrimmed(parsed.model))
        /\ title = <<"C", "a", "s", "e", " ", "I", "H", " ", "F", "a", "r", "m", "a", "l", "l", " ", "7", "5", "C">> => parsed = Parsed(<<"C", "a", "s", "e", " ", "I", "H">>, <<"F", "a", "r", "m", "a", "l", "l", " ", "7", "5", "C">>)

\* C30: a known manufacturer returned as make is followed in the trimmed
\* title by whitespace.
C30_WordBoundary ==
    (parse_outcome = "returned" /\ parsed.tuple /\ parsed.make \in KnownMakeSet) =>
        /\ Len(TitleText) > Len(parsed.make)
        /\ TitleText[Len(parsed.make) + 1] \in Whitespace

(***************************************************************************)
(* Properties of the target-make filter                                    *)
(***************************************************************************)
\* A text trimmed, lowercased, and with its spaces replaced by hyphens
RECURSIVE Hyphenated(_)
Hyphenated(s) ==
    IF s = <<>> THEN <<>>
    ELSE <<IF Head(s) = " " THEN "-" ELSE LowerChar(Head(s))>> \o Hyphenated(Tail(s))

NormalisedMake(s) == Hyphenated(Strip(s))

\* The text of a slug; a make without slug has the empty text
SlugText(slug) == IF slug.kind = "str" THEN slug.chars ELSE <<>>

\* Some target equals the make's name or slug, all normalised
OnAllowlist(name, slug) ==
    \E i \in DOMAIN target_makes :
        \/ NormalisedMake(target_makes[i]) = NormalisedMake(name.chars)
        \/ NormalisedMake(target_makes[i]) = NormalisedMake(SlugText(slug))

\* C23: _is_target_make(name, slug) is true iff the target list is empty or
\* some normalised target equals the normalised name or slug; the requests
\* parse_makes yields are model-list requests for makes of the response that
\* pass this test.
C23_TargetMakeAllowlist ==
    /\ target_call # NoCall =>
          (target_call.result
              <=> (target_makes = <<>>
                   \/ OnAllowlist(target_call.make_name, target_call.make_slug)))
    /\ makes_outcome # "none" =>
          \A r \in DOMAIN requests :
              /\ requests[r].callback = "parse_models"
              /\ requests[r].tractor_make = requests[r].make_slug
              /\ target_makes # <<>> =>
                    OnAllowlist(requests[r].make_name, requests[r].make_slug)
              /\ \E e \in DOMAIN MakesOf(makes_response).makes :
                    \E key \in {"make", "name", "title"} :
                        spec_get(MakesOf(makes_response).makes[e], key)
                            = requests[r].make_name

C23_Witness ==
    /\ target_makes = <<<<"K", "U", "B", "O", "T", "A">>, <<"c", "a", "s", "e", "-", "i", "h">>>>
    /\ target_call = [make_name |-> MStr(<<"F", "e", "n", "d", "t">>), make_slug |-> MStr(<<"C", "a", "s", "e", " ", "I", "H">>),
                      result |-> TRUE]
    /\ makes_outcome = "returned"
    /\ Len(MakesOf(makes_response).makes) = MaxMakes
    /\ Len(requests) = 1
    /\ requests[1].make_name = MStr(<<"C", "A", "S", "E", " ", "I", "H">>)

(***************************************************************************)
(* Properties of parse                                                     *)
(***************************************************************************)
\* The page is a filtered one: the response carries a make filter, or there
\* are no target makes to filter by
FilteredPage == Truthy(page_response.make_filter) \/ target_makes = <<>>

\* The strategies in priority order, and whether the selector of each matched
Strategies ==
    <<"_parse_table", "_parse_cards(tractor_cards)", "_parse_cards(product_items)",
      "follow">>

SelectorMatched ==
    <<page_response.specs_rows # <<>> \/ page_response.table_rows # <<>>,
      page_response.cards # <<>>,
      page_response.product_items # <<>>,
      page_response.links # <<>>>>

FirstMatched ==
    CHOOSE i \in DOMAIN Strategies :
        SelectorMatched[i] /\ \A j \in 1..(i - 1) : ~SelectorMatched[j]

\* C24: on a filtered page exactly the first strategy whose selector is
\* non-empty is applied, in the order table rows, cards, product items,
\* detail links, whatever it yields; when no selector matches, parse yields
\* nothing; parse does not raise.
C24_ExtractorPriority ==
    (page_outcome # "none" /\ FilteredPage) =>
        /\ page_outcome = "returned"
        /\ IF \E i \in DOMAIN Strategies : SelectorMatched[i]
           THEN applied = <<Strategies[FirstMatched]>>
           ELSE applied = <<>> /\ yielded = <<>>

C24_Witness ==
    /\ page_outcome = "returned"
    /\ FilteredPage
    /\ page_response.table_rows = <<HeaderRow>>
    /\ _parse_cards(target_makes, page_response.url, page_response.cards) # <<>>
    /\ page_response.links # <<>>
    /\ applied = <<"_parse_table">>
    /\ yielded = <<>>

Reordered(rows, p) == [i \in DOMAIN rows |-> rows[p[i]]]

\* The response with the items of its dict in another order
WithRows(response, rows) == [response EXCEPT !.rows = rows]

\* The data of the response is a dict without a "spec" item, read by the
\* substring rules
GenericDict ==
    /\ specs_outcome = "returned"
    /\ specs_response.form = "dict"
    /\ "spec" \notin DOMAIN specs_response.api
    /\ specs_items # <<>>

\* C21: the item parse_specs yields for a dict of raw keys and values is the
\* same for every order in which the dict presents its items to the substring
\* rules of _extract_spec_value.
C21_OrderIndependence ==
    GenericDict =>
        \A p \in Permutations(DOMAIN specs_response.rows) :
            parse_specs(WithRows(specs_response, Reordered(specs_response.rows, p))).items
                = specs_items

====
